---- MODULE Spec2Model ----
(***************************************************************************)
(* Model of the container system's text wire codec, its value variants     *)
(* and the ValueContainer object (python_container_system).                *)
(*                                                                         *)
(* Text is a sequence of one-character strings.  Integers are held as a    *)
(* sign and a little-endian base-256 magnitude, so that the 32- and 64-bit *)
(* boundaries of the numeric value types are representable.                *)
(***************************************************************************)
EXTENDS Integers, Sequences, FiniteSets, TLC

(***************************************************************************)
(* Text helpers (Python str operations used by the codec)                  *)
(***************************************************************************)

\* F applied to the value of e, which is computed once
With(e, F(_)) == CHOOSE r \in {F(x) : x \in {e}} : TRUE

\* the outcome of a call that may raise: a returned value, or the exception
Ok(v) == [ok |-> TRUE, val |-> v]

Raised(what) == [ok |-> FALSE, err |-> what]

SetMin(S) == CHOOSE x \in S : \A y \in S : x <= y

\* s[i:] (1-based, inclusive start)
From(s, i) == SubSeq(s, i, Len(s))

\* s.startswith(pat, i-1)
MatchAt(s, pat, i) ==
  /\ i >= 1
  /\ i + Len(pat) - 1 <= Len(s)
  /\ \A j \in 1..Len(pat) : s[i + j - 1] = pat[j]

\* s.find(pat, i-1) + 1: the first position >= i where pat occurs, 0 if none
Find(s, pat, i) ==
  With({j \in i..(Len(s) - Len(pat) + 1) : MatchAt(s, pat, j)},
       LAMBDA hits : IF hits = {} THEN 0 ELSE SetMin(hits))

\* str.replace(old, new): left to right, non-overlapping
RECURSIVE ReplaceFrom(_, _, _, _)
ReplaceFrom(s, old, new, i) ==
  With(Find(s, old, i), LAMBDA p :
    IF p = 0 THEN From(s, i)
    ELSE SubSeq(s, i, p - 1) \o new \o ReplaceFrom(s, old, new, p + Len(old)))

Replace(s, old, new) == ReplaceFrom(s, old, new, 1)

\* the regex class \s, over the characters the model uses
IsSpace(ch) == ch = " "

\* the first position >= i holding a non-space character (Len(s)+1 if none)
RECURSIVE SkipSpaces(_, _)
SkipSpaces(s, i) ==
  IF i > Len(s) \/ ~IsSpace(s[i]) THEN i ELSE SkipSpaces(s, i + 1)

\* str.strip() applied to a text: only emptiness of the result is used
StripIsEmpty(s) == \A j \in 1..Len(s) : IsSpace(s[j])

UpperLetters ==
  << "A", "B", "C", "D", "E", "F", "G", "H", "I", "J", "K", "L", "M",
     "N", "O", "P", "Q", "R", "S", "T", "U", "V", "W", "X", "Y", "Z" >>

LowerLetters ==
  << "a", "b", "c", "d", "e", "f", "g", "h", "i", "j", "k", "l", "m",
     "n", "o", "p", "q", "r", "s", "t", "u", "v", "w", "x", "y", "z" >>

\* str.lower() on one (ASCII) character
LowerChar(ch) ==
  IF \E j \in 1..26 : UpperLetters[j] = ch
  THEN LowerLetters[CHOOSE j \in 1..26 : UpperLetters[j] = ch]
  ELSE ch

Lower(s) == [j \in 1..Len(s) |-> LowerChar(s[j])]

(***************************************************************************)
(* Python int: sign and little-endian base-256 magnitude without leading   *)
(* zero bytes.  Zero is the empty magnitude with neg = FALSE.              *)
(***************************************************************************)

\* drop the most significant zero bytes
RECURSIVE MagNorm(_)
MagNorm(m) ==
  IF m = <<>> THEN <<>>
  ELSE IF m[Len(m)] = 0 THEN MagNorm(SubSeq(m, 1, Len(m) - 1))
  ELSE m

MkInt(neg, mag) ==
  With(MagNorm(mag), LAMBDA n : [neg |-> neg /\ n # <<>>, mag |-> n])

\* a small non-negative machine number as a Python int
RECURSIVE MagOfNat(_)
MagOfNat(n) == IF n = 0 THEN <<>> ELSE <<n % 256>> \o MagOfNat(n \div 256)

IntOf(n) == IF n < 0 THEN MkInt(TRUE, MagOfNat(0 - n)) ELSE MkInt(FALSE, MagOfNat(n))

\* -1, 0, 1 as a < b, a = b, a > b for normalised magnitudes
MagCmp(a, b) ==
  IF Len(a) # Len(b) THEN (IF Len(a) < Len(b) THEN -1 ELSE 1)
  ELSE With({j \in 1..Len(a) : a[j] # b[j]}, LAMBDA diff :
         IF diff = {} THEN 0
         ELSE With(CHOOSE j \in diff : \A l \in diff : l <= j, LAMBDA top :
                IF a[top] < b[top] THEN -1 ELSE 1))

\* a <= b on Python ints
IntLE(a, b) ==
  IF a.neg /\ ~b.neg THEN TRUE
  ELSE IF ~a.neg /\ b.neg THEN FALSE
  ELSE IF a.neg THEN MagCmp(a.mag, b.mag) >= 0
  ELSE MagCmp(a.mag, b.mag) <= 0

\* m * 10 + d on a magnitude (carry runs from the least significant byte)
RECURSIVE MagMul10Add(_, _)
MagMul10Add(m, carry) ==
  IF m = <<>> THEN MagOfNat(carry)
  ELSE LET t == m[1] * 10 + carry
       IN  <<t % 256>> \o MagMul10Add(Tail(m), t \div 256)

\* <<m div 10, m mod 10>>: long division from the most significant byte
RECURSIVE MagDivMod10(_, _, _)
MagDivMod10(m, j, rem) ==
  IF j = 0 THEN <<<<>>, rem>>
  ELSE With(rem * 256 + m[j], LAMBDA t :
         With(MagDivMod10(m, j - 1, t % 10), LAMBDA rest :
           <<rest[1] \o <<t \div 10>>, rest[2]>>))

DigitChars == << "0", "1", "2", "3", "4", "5", "6", "7", "8", "9" >>

IsDigit(ch) == \E j \in 1..10 : DigitChars[j] = ch

DigitVal(ch) == (CHOOSE j \in 1..10 : DigitChars[j] = ch) - 1

\* the decimal digits of a magnitude, most significant first ("" for zero)
RECURSIVE MagToDigits(_)
MagToDigits(m) ==
  IF m = <<>> THEN <<>>
  ELSE With(MagDivMod10(m, Len(m), 0), LAMBDA qr :
         MagToDigits(MagNorm(qr[1])) \o <<DigitChars[qr[2] + 1]>>)

\* a small Python int as a machine number (the child count of a tuple)
RECURSIVE MagToNat(_)
MagToNat(m) == IF m = <<>> THEN 0 ELSE m[1] + 256 * MagToNat(Tail(m))

\* str(int)
IntToStr(v) ==
  IF v.mag = <<>> THEN <<"0">>
  ELSE (IF v.neg THEN <<"-">> ELSE <<>>) \o MagToDigits(v.mag)

RECURSIVE DigitsToMag(_, _, _)
DigitsToMag(s, j, acc) ==
  IF j > Len(s) THEN acc
  ELSE DigitsToMag(s, j + 1, MagNorm(MagMul10Add(acc, DigitVal(s[j]))))

\* int(text): surrounding blanks, an optional sign, then decimal digits with
\* single underscores allowed between digits; anything else raises ValueError
\* s.strip()
Strip(s) ==
  With({j \in 1..Len(s) : ~IsSpace(s[j])}, LAMBDA solid :
    IF solid = {} THEN <<>>
    ELSE SubSeq(s, SetMin(solid), CHOOSE j \in solid : \A l \in solid : l <= j))

\* the digits of a decimal literal, the underscores taken out
RECURSIVE DropUnderscores(_)
DropUnderscores(s) ==
  IF s = <<>> THEN <<>>
  ELSE (IF s[1] = "_" THEN <<>> ELSE <<s[1]>>) \o DropUnderscores(Tail(s))

\* digits, with single underscores only between two digits
IsDecimalLiteral(s) ==
  /\ s # <<>>
  /\ \A j \in 1..Len(s) :
       \/ IsDigit(s[j])
       \/ s[j] = "_" /\ 1 < j /\ j < Len(s) /\ IsDigit(s[j - 1]) /\ IsDigit(s[j + 1])

\* int(text) on text without surrounding blanks
StrToIntBody(body) ==
  With(body # <<>> /\ body[1] \in {"-", "+"}, LAMBDA sgn :
    With(IF sgn THEN Tail(body) ELSE body, LAMBDA digs :
      IF IsDecimalLiteral(digs)
      THEN Ok(MkInt(sgn /\ body[1] = "-", DigitsToMag(DropUnderscores(digs), 1, <<>>)))
      ELSE Raised("ValueError")))

StrToInt(s) == StrToIntBody(Strip(s))

(***************************************************************************)
(* Byte payloads: struct.pack / struct.unpack, UTF-8 and base64            *)
(***************************************************************************)

\* the printable ASCII characters in code order, from 32 (space) to 126; the
\* grave accent (96) is written BACKTICK
AsciiPrintable ==
  <<
     " ", "!", "\"", "#", "$", "%", "&", "'", "(", ")", "*", "+", ",",
     "-", ".", "/", "0", "1", "2", "3", "4", "5", "6", "7", "8", "9",
     ":", ";", "<", "=", ">", "?", "@", "A", "B", "C", "D", "E", "F",
     "G", "H", "I", "J", "K", "L", "M", "N", "O", "P", "Q", "R", "S",
     "T", "U", "V", "W", "X", "Y", "Z", "[", "\\", "]", "^", "_", "BACKTICK",
     "a", "b", "c", "d", "e", "f", "g", "h", "i", "j", "k", "l", "m",
     "n", "o", "p", "q", "r", "s", "t", "u", "v", "w", "x", "y", "z",
     "{", "|", "}", "~" >>

\* ord(ch) for a printable ASCII character
Ord(ch) == 31 + (CHOOSE j \in 1..95 : AsciiPrintable[j] = ch)

\* str.encode("utf-8") on ASCII text
Utf8Encode(s) == [j \in 1..Len(s) |-> Ord(s[j])]

\* bytes.decode("utf-8"): raises on a byte that is not ASCII text here
Utf8Decode(b) ==
  IF \A j \in 1..Len(b) : b[j] >= 32 /\ b[j] <= 126
  THEN Ok([j \in 1..Len(b) |-> AsciiPrintable[b[j] - 31]])
  ELSE Raised("UnicodeDecodeError")

\* m + 1 on exactly Len(m) bytes (the carry out of the top byte is dropped)
RECURSIVE BytesAddOne(_)
BytesAddOne(m) ==
  IF m = <<>> THEN <<>>
  ELSE IF m[1] = 255 THEN <<0>> \o BytesAddOne(Tail(m))
  ELSE <<m[1] + 1>> \o Tail(m)

BytesInvert(m) == [j \in 1..Len(m) |-> 255 - m[j]]

ZeroPad(m, n) == [j \in 1..n |-> IF j <= Len(m) THEN m[j] ELSE 0]

\* does the int fit the n-byte (un)signed format
FitsWidth(v, n, signed) ==
  IF ~signed THEN ~v.neg /\ Len(v.mag) <= n
  ELSE \/ Len(v.mag) < n
       \/ /\ Len(v.mag) = n
          /\ \/ v.mag[n] < 128
             \/ v.neg /\ v.mag[n] = 128 /\ \A j \in 1..(n - 1) : v.mag[j] = 0

\* struct.pack of one integer, little-endian, n bytes: struct.error when the
\* value does not fit the format
StructPack(v, n, signed) ==
  IF ~FitsWidth(v, n, signed) THEN Raised("struct.error")
  ELSE IF v.neg THEN Ok(BytesAddOne(BytesInvert(ZeroPad(v.mag, n))))
  ELSE Ok(ZeroPad(v.mag, n))

\* struct.unpack reading the n bytes most significant first (">" for "<")
StructUnpack_big_endian(b, n, signed) ==
  IF Len(b) # n THEN Raised("struct.error")
  ELSE IF signed /\ b[1] >= 128
       THEN Ok(MkInt(TRUE, BytesAddOne(BytesInvert([j \in 1..n |-> b[n + 1 - j]]))))
  ELSE Ok(MkInt(FALSE, [j \in 1..n |-> b[n + 1 - j]]))

\* struct.unpack of one integer, little-endian, n bytes
StructUnpack(b, n, signed) ==
  IF Len(b) # n THEN Raised("struct.error")
  ELSE IF signed /\ b[n] >= 128 THEN Ok(MkInt(TRUE, BytesAddOne(BytesInvert(b))))
  ELSE Ok(MkInt(FALSE, b))

B64Alphabet ==
  <<
     "A", "B", "C", "D", "E", "F", "G", "H", "I", "J", "K", "L", "M", "N", "O", "P",
     "Q", "R", "S", "T", "U", "V", "W", "X", "Y", "Z", "a", "b", "c", "d", "e", "f",
     "g", "h", "i", "j", "k", "l", "m", "n", "o", "p", "q", "r", "s", "t", "u", "v",
     "w", "x", "y", "z", "0", "1", "2", "3", "4", "5", "6", "7", "8", "9", "+", "/" >>

IsB64(ch) == \E j \in 1..64 : B64Alphabet[j] = ch

B64Val(ch) == (CHOOSE j \in 1..64 : B64Alphabet[j] = ch) - 1

\* base64.b64encode: three bytes become four characters, "=" pads the tail
RECURSIVE B64Encode(_)
B64Encode(b) ==
  IF b = <<>> THEN <<>>
  ELSE IF Len(b) = 1 THEN
    << B64Alphabet[(b[1] \div 4) + 1], B64Alphabet[((b[1] % 4) * 16) + 1], "=", "=" >>
  ELSE IF Len(b) = 2 THEN
    << B64Alphabet[(b[1] \div 4) + 1],
       B64Alphabet[((b[1] % 4) * 16 + b[2] \div 16) + 1],
       B64Alphabet[((b[2] % 16) * 4) + 1], "=" >>
  ELSE
    << B64Alphabet[(b[1] \div 4) + 1],
       B64Alphabet[((b[1] % 4) * 16 + b[2] \div 16) + 1],
       B64Alphabet[((b[2] % 16) * 4 + b[3] \div 64) + 1],
       B64Alphabet[(b[3] % 64) + 1] >> \o B64Encode(SubSeq(b, 4, Len(b)))

\* base64.b64decode (validate=False): characters outside the alphabet are
\* skipped, "=" ends the data once the quad may end, and a dangling quad
\* raises binascii.Error
RECURSIVE B64DecodeFrom(_, _, _, _, _, _)
B64DecodeFrom(s, j, quad, pads, left, out) ==
  IF j > Len(s) THEN (IF quad # 0 THEN Raised("binascii.Error") ELSE Ok(out))
  ELSE IF s[j] = "=" THEN
    IF quad >= 2 /\ quad + pads + 1 >= 4 THEN Ok(out)
    ELSE B64DecodeFrom(s, j + 1, quad, IF quad >= 2 THEN pads + 1 ELSE pads, left, out)
  ELSE IF ~IsB64(s[j]) THEN B64DecodeFrom(s, j + 1, quad, pads, left, out)
  ELSE With(B64Val(s[j]), LAMBDA c :
         CASE quad = 0 -> B64DecodeFrom(s, j + 1, 1, 0, c, out)
           [] quad = 1 -> B64DecodeFrom(s, j + 1, 2, 0, c % 16,
                                        Append(out, left * 4 + c \div 16))
           [] quad = 2 -> B64DecodeFrom(s, j + 1, 3, 0, c % 4,
                                        Append(out, left * 16 + c \div 4))
           [] quad = 3 -> B64DecodeFrom(s, j + 1, 0, 0, 0,
                                        Append(out, left * 64 + c)))

B64Decode(s) == B64DecodeFrom(s, 1, 0, 0, 0, <<>>)

(***************************************************************************)
(* ValueTypes and the type registry                                        *)
(***************************************************************************)

NULL_VALUE == 0
BOOL_VALUE == 1
SHORT_VALUE == 2
USHORT_VALUE == 3
INT_VALUE == 4
UINT_VALUE == 5
LONG_VALUE == 6
ULONG_VALUE == 7
LLONG_VALUE == 8
ULLONG_VALUE == 9
FLOAT_VALUE == 10
DOUBLE_VALUE == 11
STRING_VALUE == 12
BYTES_VALUE == 13
CONTAINER_VALUE == 14
ARRAY_VALUE == 15

\* _TYPE_MAP: the code strings "0".."15"; entry t+1 is the code of type t
TYPE_MAP ==
  << <<"0">>, <<"1">>, <<"2">>, <<"3">>, <<"4">>, <<"5">>, <<"6">>, <<"7">>,
     <<"8">>, <<"9">>, <<"1", "0">>, <<"1", "1">>, <<"1", "2">>, <<"1", "3">>,
     <<"1", "4">>, <<"1", "5">> >>

\* a lookup that reads the code as a number, int(type_str), instead of
\* looking the text up
get_type_from_string_int(type_str) ==
  With(StrToInt(type_str), LAMBDA n :
    IF n.ok /\ ~n.val.neg /\ Len(n.val.mag) <= 1 /\ MagToNat(n.val.mag) \in 0..15
    THEN MagToNat(n.val.mag)
    ELSE NULL_VALUE)

\* _TYPE_MAP.get(type_str, NULL_VALUE)
get_type_from_string(type_str) ==
  IF \E t \in 0..15 : TYPE_MAP[t + 1] = type_str
  THEN CHOOSE t \in 0..15 : TYPE_MAP[t + 1] = type_str
  ELSE NULL_VALUE

\* _REVERSE_TYPE_MAP.get(value_type, "0")
get_string_from_type(value_type) ==
  IF value_type \in 0..15 THEN TYPE_MAP[value_type + 1] ELSE <<"0">>

(***************************************************************************)
(* Value variants.  A value is a record: type code, name, the native       *)
(* value, the data payload, the parent back-reference, the children of a   *)
(* ContainerValue (units) and the elements of an ArrayValue (values).      *)
(* The native value (_value) is a record with one component per kind, of   *)
(* which the variant uses one: b (bool), n (int), s (str) or y (bytes).    *)
(***************************************************************************)

NoNative == [b |-> FALSE, n |-> MkInt(FALSE, <<>>), s |-> <<>>, y |-> <<>>]

NativeBool(b) == [NoNative EXCEPT !.b = b]

NativeInt(n) == [NoNative EXCEPT !.n = n]

NativeStr(s) == [NoNative EXCEPT !.s = s]

NativeBytes(y) == [NoNative EXCEPT !.y = y]

\* Value.__init__
Value(name, value_type, value, data) ==
  [type |-> value_type, name |-> name, value |-> value, data |-> data,
   parent |-> "None", units |-> <<>>, values |-> <<>>]

\* Value.set_parent
set_parent(v, parent) == [v EXCEPT !.parent = parent]

NullValue(name) == Ok(Value(name, NULL_VALUE, NoNative, <<>>))

\* BoolValue.__init__: struct.pack("?", value)
BoolValue(name, value) ==
  Ok(Value(name, BOOL_VALUE, NativeBool(value), IF value THEN <<1>> ELSE <<0>>))

\* NumericValue.__init__ for the integer formats: struct.pack raises when the
\* value does not fit
NumericValue(name, value_type, value, nbytes, signed) ==
  With(StructPack(value, nbytes, signed), LAMBDA data :
    IF data.ok THEN Ok(Value(name, value_type, NativeInt(value), data.val)) ELSE data)

ShortValue(name, value) == NumericValue(name, SHORT_VALUE, value, 2, TRUE)

UShortValue(name, value) == NumericValue(name, USHORT_VALUE, value, 2, FALSE)

IntValue(name, value) == NumericValue(name, INT_VALUE, value, 4, TRUE)

UIntValue(name, value) == NumericValue(name, UINT_VALUE, value, 4, FALSE)

LLongValue(name, value) == NumericValue(name, LLONG_VALUE, value, 8, TRUE)

ULLongValue(name, value) == NumericValue(name, ULLONG_VALUE, value, 8, FALSE)

\* LongValue.INT32_MIN, INT32_MAX and ULongValue.UINT32_MAX
INT32_MIN == MkInt(TRUE, <<0, 0, 0, 128>>)

INT32_MAX == MkInt(FALSE, <<255, 255, 255, 127>>)

UINT32_MAX == MkInt(FALSE, <<255, 255, 255, 255>>)

\* LongValue.__init__ without the range policy
LongValue_unchecked(name, value) == NumericValue(name, LONG_VALUE, value, 4, TRUE)

\* LongValue.__init__: the 32-bit range policy, then "<i"
LongValue(name, value) ==
  IF ~(IntLE(INT32_MIN, value) /\ IntLE(value, INT32_MAX))
  THEN Raised("OverflowError")
  ELSE NumericValue(name, LONG_VALUE, value, 4, TRUE)

\* ULongValue.__init__: the 32-bit range policy, then "<I"
ULongValue(name, value) ==
  IF ~(IntLE(IntOf(0), value) /\ IntLE(value, UINT32_MAX))
  THEN Raised("OverflowError")
  ELSE NumericValue(name, ULONG_VALUE, value, 4, FALSE)

\* LongValue.from_data: struct.unpack("<i", data), then the constructor
LongValue_from_data(name, data) ==
  With(StructUnpack(data, 4, TRUE), LAMBDA value :
    IF value.ok THEN LongValue(name, value.val) ELSE value)

\* ULongValue.from_data: struct.unpack("<I", data), then the constructor
ULongValue_from_data(name, data) ==
  With(StructUnpack(data, 4, FALSE), LAMBDA value :
    IF value.ok THEN ULongValue(name, value.val) ELSE value)

StringValue(name, value) ==
  Ok(Value(name, STRING_VALUE, NativeStr(value), Utf8Encode(value)))

BytesValue(name, value) == Ok(Value(name, BYTES_VALUE, NativeBytes(value), value))

\* ContainerValue.__init__: the children get this value as parent
ContainerValue(name, units) ==
  Ok([Value(name, CONTAINER_VALUE, NoNative, <<>>) EXCEPT
        !.units = [j \in 1..Len(units) |-> set_parent(units[j], "Value")]])

\* ArrayValue.__init__: the elements get this value as parent
ArrayValue(name, values) ==
  Ok([Value(name, ARRAY_VALUE, NoNative, <<>>) EXCEPT
        !.values = [j \in 1..Len(values) |-> set_parent(values[j], "Value")]])

\* bool(value) as Python evaluates "if value:": __bool__ of BoolValue,
\* __len__ of StringValue, BytesValue, ContainerValue and ArrayValue, and
\* plain object truth for the numeric values and NullValue
Truthy(v) ==
  CASE v.type = BOOL_VALUE -> v.value.b
    [] v.type = STRING_VALUE -> Len(v.value.s) # 0
    [] v.type = BYTES_VALUE -> Len(v.value.y) # 0
    [] v.type = CONTAINER_VALUE -> Len(v.units) # 0
    [] v.type = ARRAY_VALUE -> Len(v.values) # 0
    [] OTHER -> TRUE

\* the from_string class methods: int(value_str) then the constructor
IntFromString(name, value_type, value_str) ==
  With(StrToInt(value_str), LAMBDA n :
    IF ~n.ok THEN n
    ELSE CASE value_type = SHORT_VALUE -> ShortValue(name, n.val)
           [] value_type = USHORT_VALUE -> UShortValue(name, n.val)
           [] value_type = INT_VALUE -> IntValue(name, n.val)
           [] value_type = UINT_VALUE -> UIntValue(name, n.val)
           [] value_type = LONG_VALUE -> LongValue(name, n.val)
           [] value_type = ULONG_VALUE -> ULongValue(name, n.val)
           [] value_type = LLONG_VALUE -> LLongValue(name, n.val)
           [] value_type = ULLONG_VALUE -> ULLongValue(name, n.val))

\* BoolValue.from_string
BoolFromString(name, value_str) ==
  BoolValue(name, Lower(value_str) \in
                    {<<"t", "r", "u", "e">>, <<"1">>, <<"y", "e", "s">>, <<"o", "n">>})

\* BytesValue.from_string
BytesFromString(name, value_str) ==
  With(B64Decode(value_str), LAMBDA data :
    IF data.ok THEN BytesValue(name, data.val) ELSE data)

IsIntegerType(t) == t \in SHORT_VALUE..ULLONG_VALUE

\* the [name,type,value]; fragment
Fragment(name, value_type, text) ==
  <<"[">> \o name \o <<",">> \o get_string_from_type(value_type) \o <<",">>
    \o text \o <<"]", ";">>

\* Value.serialize of every variant: ContainerValue emits an empty third
\* field, ArrayValue the element count, and both append their children
RECURSIVE serialize_value(_)
RECURSIVE serialize_all(_)
serialize_all(vs) ==
  IF vs = <<>> THEN <<>> ELSE serialize_value(Head(vs)) \o serialize_all(Tail(vs))

serialize_value(v) ==
  CASE v.type = NULL_VALUE -> Fragment(v.name, v.type, <<"n", "u", "l", "l">>)
    [] v.type = BOOL_VALUE ->
         Fragment(v.name, v.type,
                  IF v.value.b THEN <<"t", "r", "u", "e">>
                  ELSE <<"f", "a", "l", "s", "e">>)
    [] IsIntegerType(v.type) -> Fragment(v.name, v.type, IntToStr(v.value.n))
    [] v.type = STRING_VALUE ->
         Fragment(v.name, v.type, Replace(v.value.s, <<"]", ";">>, <<"\\", "]", ";">>))
    [] v.type = BYTES_VALUE -> Fragment(v.name, v.type, B64Encode(v.value.y))
    [] v.type = CONTAINER_VALUE ->
         Fragment(v.name, v.type, <<>>) \o serialize_all(v.units)
    [] v.type = ARRAY_VALUE ->
         Fragment(v.name, v.type, IntToStr(IntOf(Len(v.values))))
           \o serialize_all(v.values)

(***************************************************************************)
(* ValueContainer: construction and serialize                              *)
(***************************************************************************)

DEFAULT_VERSION == <<"1", ".", "0", ".", "0", ".", "0">>

DEFAULT_MESSAGE_TYPE ==
  << "d", "a", "t", "a", "_", "c", "o", "n", "t", "a", "i", "n", "e", "r" >>

\* header field IDs
TARGET_ID == 1
TARGET_SUB_ID == 2
SOURCE_ID == 3
SOURCE_SUB_ID == 4
MESSAGE_TYPE == 5
MESSAGE_VERSION == 6

\* ValueContainer.__init__ without data_string/data_array: the units list is
\* copied as given (no set_parent); the statistics counters are write-only
\* and are left out of the state
ValueContainer(source_id, source_sub_id, target_id, target_sub_id, message_type, units) ==
  [source_id |-> source_id, source_sub_id |-> source_sub_id,
   target_id |-> target_id, target_sub_id |-> target_sub_id,
   message_type |-> IF message_type # <<>> THEN message_type ELSE DEFAULT_MESSAGE_TYPE,
   version |-> DEFAULT_VERSION,
   units |-> units,
   parsed_data |-> TRUE, changed_data |-> FALSE, data_string |-> <<>>,
   thread_safe_enabled |-> FALSE]

HeaderOpen ==
  << "@", "h", "e", "a", "d", "e", "r", "=", "{", "{" >>

DataOpen ==
  << "@", "d", "a", "t", "a", "=", "{", "{" >>

HeaderItem(id, text) == <<"[">> \o IntToStr(IntOf(id)) \o <<",">> \o text \o <<"]", ";">>

\* the header block of the wire text
HeaderText(c) ==
  HeaderOpen
    \o HeaderItem(TARGET_ID, c.target_id)
    \o HeaderItem(TARGET_SUB_ID, c.target_sub_id)
    \o HeaderItem(SOURCE_ID, c.source_id)
    \o HeaderItem(SOURCE_SUB_ID, c.source_sub_id)
    \o HeaderItem(MESSAGE_TYPE, c.message_type)
    \o HeaderItem(MESSAGE_VERSION, c.version)
    \o <<"}", "}">>

\* the data block of the wire text around the tuples
DataText(tuples) == DataOpen \o tuples \o <<"}", "}", ";">>

\* the text serialize() builds from the current header fields and units
\* (container.py 315-331)
SerializeText(c) == HeaderText(c) \o DataText(serialize_all(c.units))

\* serialize() hits the cache when the dirty flag is clear and a string is held
CacheHit(c) == ~c.changed_data /\ c.data_string # <<>>

\* what serialize() returns
SerializeResult(c) == IF CacheHit(c) THEN c.data_string ELSE SerializeText(c)

\* the container after serialize()
SerializeState(c) ==
  IF CacheHit(c) THEN c
  ELSE [c EXCEPT !.data_string = SerializeText(c), !.changed_data = FALSE]

(***************************************************************************)
(* ValueContainer.deserialize: the regular expressions, the header mapping *)
(* and the cursor-based rebuild of the value tree                          *)
(***************************************************************************)

NoMatch == [ok |-> FALSE]

HeaderKey ==
  << "@", "h", "e", "a", "d", "e", "r", "=" >>

DataKey ==
  << "@", "d", "a", "t", "a", "=" >>

\* re.search(r"@header=\s*\{\{(.*?)\}\}", s): group 1 of the leftmost match
RECURSIVE HeaderSearchFrom(_, _)
HeaderSearchFrom(s, from) ==
  With(Find(s, HeaderKey, from), LAMBDA i :
    IF i = 0 THEN NoMatch
    ELSE With(SkipSpaces(s, i + Len(HeaderKey)) + 2, LAMBDA b :
           With(Find(s, <<"}", "}">>, b), LAMBDA e :
             IF MatchAt(s, <<"{", "{">>, b - 2) /\ e # 0
             THEN [ok |-> TRUE, group |-> SubSeq(s, b, e - 1)]
             ELSE HeaderSearchFrom(s, i + 1))))

HeaderSearch(s) == HeaderSearchFrom(s, 1)

\* one match of r"\[([^,]+),\s*([^\]]*)\];" anchored at position i
HeaderItemAt(s, i) ==
  IF i < 1 \/ i > Len(s) \/ s[i] # "[" THEN NoMatch
  ELSE With(Find(s, <<",">>, i + 1), LAMBDA comma :
         IF comma = 0 \/ comma = i + 1 THEN NoMatch
         ELSE With(SkipSpaces(s, comma + 1), LAMBDA v0 :
                With(Find(s, <<"]">>, v0), LAMBDA q :
                  IF q = 0 \/ ~MatchAt(s, <<"]", ";">>, q) THEN NoMatch
                  ELSE [ok |-> TRUE, key |-> SubSeq(s, i + 1, comma - 1),
                        value |-> SubSeq(s, v0, q - 1), end |-> q + 2])))

\* re.finditer over the header content: <<key, value>> pairs in order
RECURSIVE HeaderItems(_, _)
HeaderItems(s, from) ==
  With(Find(s, <<"[">>, from), LAMBDA i :
    IF i = 0 THEN <<>>
    ELSE With(HeaderItemAt(s, i), LAMBDA m :
           IF m.ok THEN <<[key |-> m.key, value |-> m.value]>> \o HeaderItems(s, m.end)
           ELSE HeaderItems(s, i + 1)))

FieldGet_without_default(items, key, default) ==
  With({j \in 1..Len(items) : items[j].key = key}, LAMBDA hits :
    IF hits = {} THEN <<>>
    ELSE items[CHOOSE j \in hits : \A l \in hits : l <= j].value)

\* header_fields.get(key, default) on the dict built from the items: a later
\* item with the same key replaced the earlier one
FieldGet(items, key, default) ==
  With({j \in 1..Len(items) : items[j].key = key}, LAMBDA hits :
    IF hits = {} THEN default
    ELSE items[CHOOSE j \in hits : \A l \in hits : l <= j].value)

\* re.search(r"@data=\s*\{\{?(.*?)\}\}?;", s): group 1 of the leftmost match
RECURSIVE DataEnd(_, _)
DataEnd(s, from) ==
  With(Find(s, <<"}">>, from), LAMBDA e :
    IF e = 0 THEN 0
    ELSE IF MatchAt(s, <<"}", ";">>, e) \/ MatchAt(s, <<"}", "}", ";">>, e) THEN e
    ELSE DataEnd(s, e + 1))

RECURSIVE DataSearchFrom(_, _)
DataSearchFrom(s, from) ==
  With(Find(s, DataKey, from), LAMBDA i :
    IF i = 0 THEN NoMatch
    ELSE With(SkipSpaces(s, i + Len(DataKey)), LAMBDA brace :
           With(IF MatchAt(s, <<"{", "{">>, brace) THEN brace + 2 ELSE brace + 1, LAMBDA b :
             With(DataEnd(s, b), LAMBDA e :
               IF MatchAt(s, <<"{">>, brace) /\ e # 0
               THEN [ok |-> TRUE, group |-> SubSeq(s, b, e - 1)]
               ELSE DataSearchFrom(s, i + 1)))))

DataSearch(s) == DataSearchFrom(s, 1)

ESCAPED_DELIMITER ==
  << "_", "_", "E", "S", "C", "A", "P", "E", "D", "_", "S", "E", "M", "I",
     "C", "O", "L", "O", "N", "_", "B", "R", "A", "C", "K", "E", "T", "_",
     "_" >>

\* one match of r"\[([^,]+),\s*([^,]+),\s*(.*?)\];" anchored at position i:
\* name and type run to the next comma and must not be empty (a type field
\* of blanks only keeps its last blank), the value runs to the first "];"
DataItemAt(s, i) ==
  IF i < 1 \/ i > Len(s) \/ s[i] # "[" THEN NoMatch
  ELSE With(Find(s, <<",">>, i + 1), LAMBDA c1 :
         IF c1 = 0 \/ c1 = i + 1 THEN NoMatch
         ELSE With(Find(s, <<",">>, c1 + 1), LAMBDA c2 :
                IF c2 = 0 \/ c2 = c1 + 1 THEN NoMatch
                ELSE With(SkipSpaces(s, c1 + 1), LAMBDA t0 :
                       With(SkipSpaces(s, c2 + 1), LAMBDA v0 :
                         With(Find(s, <<"]", ";">>, v0), LAMBDA e :
                           IF e = 0 THEN NoMatch
                           ELSE [ok |-> TRUE,
                                 name |-> SubSeq(s, i + 1, c1 - 1),
                                 type |-> IF t0 = c2 THEN <<s[c2 - 1]>>
                                          ELSE SubSeq(s, t0, c2 - 1),
                                 value |-> SubSeq(s, v0, e - 1),
                                 end |-> e + 2])))))

\* the list "matches" of _deserialize_values: the tuples found in safe_data,
\* the placeholder put back into each value
RECURSIVE DataItems(_, _)
DataItems(s, from) ==
  With(Find(s, <<"[">>, from), LAMBDA i :
    IF i = 0 THEN <<>>
    ELSE With(DataItemAt(s, i), LAMBDA m :
           IF m.ok
           THEN <<[name |-> m.name, type |-> m.type,
                   value |-> Replace(m.value, ESCAPED_DELIMITER, <<"]", ";">>)]>>
                  \o DataItems(s, m.end)
           ELSE DataItems(s, i + 1)))

Matches(data_part) ==
  DataItems(Replace(data_part, <<"\\", "]", ";">>, ESCAPED_DELIMITER), 1)

\* the result None of the value factories
None == [ok |-> FALSE, err |-> "None"]

\* ValueContainer._create_value: the from_string of the variant; an
\* exception and an unsupported type code both give None
create_value(name, value_type, value_str) ==
  With(CASE value_type = BOOL_VALUE -> BoolFromString(name, value_str)
         [] IsIntegerType(value_type) -> IntFromString(name, value_type, value_str)
         [] value_type = STRING_VALUE -> StringValue(name, value_str)
         [] value_type = BYTES_VALUE -> BytesFromString(name, value_str)
         [] value_type \in {NULL_VALUE, CONTAINER_VALUE, ARRAY_VALUE} -> None,
       LAMBDA made : IF made.ok THEN made ELSE None)

\* int(value_str) if value_str.strip() else 0, ValueError giving 0
ChildCount(value_str) ==
  IF StripIsEmpty(value_str) THEN 0
  ELSE With(StrToInt(value_str), LAMBDA n :
         IF ~n.ok \/ n.val.neg THEN 0 ELSE MagToNat(n.val.mag))

\* ValueContainer._parse_value_recursive with the shared cursor index_ref:
\* the result is the value (or None) and the cursor after the call
RECURSIVE parse_value_recursive(_, _, _, _, _)
RECURSIVE ParseChildren(_, _, _, _)
ParseChildren(matches, index, remaining, children) ==
  IF remaining = 0 THEN [children |-> children, index |-> index]
  ELSE IF index < Len(matches)
  THEN With(parse_value_recursive(
              matches, index + 1, matches[index + 1].name,
              get_type_from_string(matches[index + 1].type), matches[index + 1].value),
            LAMBDA child :
              ParseChildren(matches, child.index, remaining - 1,
                            IF child.res.ok /\ Truthy(child.res.val)
                            THEN Append(children, child.res.val) ELSE children))
  ELSE ParseChildren(matches, index + 1, remaining - 1, children)

parse_value_recursive_cursor_kept(matches, index, name, value_type, value_str) ==
  IF value_type = CONTAINER_VALUE
  THEN With(ParseChildren(matches, index, ChildCount(value_str), <<>>), LAMBDA sub :
         [res |-> ContainerValue(name, sub.children), index |-> index])
  ELSE [res |-> create_value(name, value_type, value_str), index |-> index]

parse_value_recursive(matches, index, name, value_type, value_str) ==
  IF value_type = CONTAINER_VALUE
  THEN With(ParseChildren(matches, index, ChildCount(value_str), <<>>), LAMBDA sub :
         [res |-> ContainerValue(name, sub.children), index |-> sub.index])
  ELSE [res |-> create_value(name, value_type, value_str), index |-> index]

\* the while loop of _deserialize_values; index is the 1-based position of
\* the tuple under the cursor (index_ref[0] + 1); a kept value gets the
\* container as parent
RECURSIVE DeserializeLoop(_, _, _, _)
DeserializeLoop(matches, index, units, self) ==
  IF index > Len(matches) THEN units
  ELSE With(parse_value_recursive(
              matches, index, matches[index].name,
              get_type_from_string(matches[index].type), matches[index].value),
            LAMBDA parsed :
              DeserializeLoop(matches, parsed.index + 1,
                              IF parsed.res.ok /\ Truthy(parsed.res.val)
                              THEN Append(units, set_parent(parsed.res.val, self))
                              ELSE units,
                              self))

\* ValueContainer._deserialize_values: the units after the call
deserialize_values(data_part, self) ==
  IF data_part = <<>> \/ StripIsEmpty(data_part) THEN <<>>
  ELSE DeserializeLoop(Matches(data_part), 1, <<>>, self)

\* ValueContainer.deserialize (container.py 362-428) on container c whose
\* id is self: the container after the call and the value returned.  No
\* statement of the body raises in the model, so the except branch is not
\* reached.
deserialize(c, self, data_string, parse_only_header) ==
  With(HeaderSearch(data_string), LAMBDA header :
    IF ~header.ok THEN [c |-> [c EXCEPT !.data_string = data_string], ret |-> FALSE]
    ELSE With(HeaderItems(header.group, 1), LAMBDA f :
      With(IF parse_only_header THEN NoMatch ELSE DataSearch(data_string), LAMBDA data :
        [c |-> [c EXCEPT
                  !.data_string = data_string,
                  !.target_id = FieldGet(f, IntToStr(IntOf(TARGET_ID)),
                                  FieldGet(f, <<"t", "a", "r", "g", "e", "t", "_", "i", "d">>, <<>>)),
                  !.target_sub_id = FieldGet(f, IntToStr(IntOf(TARGET_SUB_ID)),
                                  FieldGet(f, <<"t", "a", "r", "g", "e", "t", "_", "s", "u", "b", "_", "i", "d">>, <<>>)),
                  !.source_id = FieldGet(f, IntToStr(IntOf(SOURCE_ID)),
                                  FieldGet(f, <<"s", "o", "u", "r", "c", "e", "_", "i", "d">>, <<>>)),
                  !.source_sub_id = FieldGet(f, IntToStr(IntOf(SOURCE_SUB_ID)),
                                  FieldGet(f, <<"s", "o", "u", "r", "c", "e", "_", "s", "u", "b", "_", "i", "d">>, <<>>)),
                  !.message_type = FieldGet(f, IntToStr(IntOf(MESSAGE_TYPE)),
                                  FieldGet(f, <<"m", "e", "s", "s", "a", "g", "e", "_", "t", "y", "p", "e">>,
                                           DEFAULT_MESSAGE_TYPE)),
                  !.version = FieldGet(f, IntToStr(IntOf(MESSAGE_VERSION)),
                                  FieldGet(f, <<"v", "e", "r", "s", "i", "o", "n">>, DEFAULT_VERSION)),
                  !.units = IF data.ok THEN deserialize_values(data.group, self) ELSE @,
                  !.parsed_data = ~parse_only_header,
                  !.changed_data = FALSE],
         ret |-> TRUE])))

(***************************************************************************)
(* ValueContainer operations as functions of the container record          *)
(***************************************************************************)

\* _update_data_string: self._data_string = self.serialize(), then the flag
update_data_string(c) ==
  [SerializeState(c) EXCEPT !.data_string = SerializeResult(c), !.changed_data = FALSE]

AfterUpdate(c, update_immediately) ==
  IF update_immediately THEN update_data_string(c) ELSE c

set_source(c, source_id, source_sub_id) ==
  [c EXCEPT !.source_id = source_id, !.source_sub_id = source_sub_id,
            !.changed_data = TRUE]

set_target(c, target_id, target_sub_id) ==
  [c EXCEPT !.target_id = target_id, !.target_sub_id = target_sub_id,
            !.changed_data = TRUE]

\* set_message_type without the assignment to _changed_data
set_message_type_keeps_flag(c, message_type) ==
  [c EXCEPT !.message_type = message_type]

set_message_type(c, message_type) ==
  [c EXCEPT !.message_type = message_type, !.changed_data = TRUE]

swap_header(c) ==
  [c EXCEPT !.source_id = c.target_id, !.target_id = c.source_id,
            !.source_sub_id = c.target_sub_id, !.target_sub_id = c.source_sub_id,
            !.changed_data = TRUE]

add(c, self, target_value, update_immediately) ==
  AfterUpdate([c EXCEPT !.units = Append(@, set_parent(target_value, self)),
                        !.changed_data = TRUE],
              update_immediately)

set_units(c, self, target_values, update_immediately) ==
  AfterUpdate([c EXCEPT !.units = [j \in 1..Len(target_values) |->
                                     set_parent(target_values[j], self)],
                        !.changed_data = TRUE],
              update_immediately)

\* ValueContainer.copy: a new container with the header fields of this one,
\* and with the same Value objects in its list when containing_values is set
copy(c, containing_values) ==
  [ValueContainer(c.source_id, c.source_sub_id, c.target_id, c.target_sub_id,
                  c.message_type, <<>>)
     EXCEPT !.version = c.version,
            !.units = IF containing_values THEN c.units ELSE @]

\* ContainerValue.add: the item is appended and gets this value as parent
ContainerValue_add(v, item) ==
  [v EXCEPT !.units = Append(@, set_parent(item, "Value"))]

\* ContainerValue.remove: the children of another name stay
ContainerValue_remove(v, name) ==
  [v EXCEPT !.units = SelectSeq(@, LAMBDA u : u.name # name)]

\* ContainerValue.remove_all
ContainerValue_remove_all(v) == [v EXCEPT !.units = <<>>]

\* ArrayValue.append
ArrayValue_append(v, value) ==
  [v EXCEPT !.values = Append(@, set_parent(value, "Value"))]

\* ArrayValue.clear
ArrayValue_clear(v) == [v EXCEPT !.values = <<>>]

\* ArrayValue.__setitem__ with a 0-based index: IndexError outside the array
ArrayValue_setitem(v, index, value) ==
  IF index < 0 \/ index >= Len(v.values) THEN Raised("IndexError")
  ELSE Ok([v EXCEPT !.values[index + 1] = set_parent(value, "Value")])

\* remove(target) with a name
remove_name(c, target, update_immediately) ==
  LET Keep(v) == v.name # target
  IN  AfterUpdate([c EXCEPT !.units = SelectSeq(@, Keep), !.changed_data = TRUE],
                  update_immediately)

remove_value_equal(c, position, update_immediately) ==
  AfterUpdate([c EXCEPT !.units = IF position \in 1..Len(@)
                                  THEN SelectSeq(@, LAMBDA v : v # c.units[position])
                                  ELSE @,
                        !.changed_data = TRUE],
              update_immediately)

\* remove(target) with a Value: the object is named by its position in the
\* unit list, 0 for an object that is not a unit (every unit is taken to be
\* a distinct object)
remove_value(c, position, update_immediately) ==
  AfterUpdate([c EXCEPT !.units = [j \in 1..(Len(@) - (IF position \in 1..Len(@) THEN 1 ELSE 0))
                                     |-> IF position \in 1..j THEN @[j + 1] ELSE @[j]],
                        !.changed_data = TRUE],
              update_immediately)

clear_value(c) == [c EXCEPT !.units = <<>>, !.changed_data = TRUE]

\* ValueContainer.value_array: [v for v in self._units if v.name == target_name]
value_array(c, target_name) == SelectSeq(c.units, LAMBDA v : v.name = target_name)

\* list indexing, matches[index]: a negative index counts from the end, and
\* an index outside -len..len-1 raises IndexError
ListIndex(matches, index) ==
  IF index >= 0 /\ index < Len(matches) THEN Ok(matches[index + 1])
  ELSE IF index < 0 /\ 0 - index <= Len(matches) THEN Ok(matches[Len(matches) + index + 1])
  ELSE Raised("IndexError")

\* ValueContainer.get_value: matches[index] if index < len(matches) else None
get_value(c, target_name, index) ==
  With(value_array(c, target_name), LAMBDA matches :
    IF index < Len(matches) THEN ListIndex(matches, index) ELSE None)

enable_thread_safety(c, enabled) == [c EXCEPT !.thread_safe_enabled = enabled]

(***************************************************************************)
(* ValueStore: a dict of values by key, kept here as the sequence of its   *)
(* items in insertion order, and the three statistics counters.            *)
(***************************************************************************)
BINARY_VERSION == 1

\* ValueStore.__init__
ValueStore ==
  [values |-> <<>>, thread_safe_enabled |-> FALSE,
   read_count |-> 0, write_count |-> 0, serialization_count |-> 0]

\* the position of key among the items of the dict, 0 when it is absent
KeyAt(values, key) ==
  IF \E j \in 1..Len(values) : values[j].key = key
  THEN CHOOSE j \in 1..Len(values) : values[j].key = key
  ELSE 0

\* self._values[key] = value: a new key goes last, a known key keeps its place
DictSet(values, key, value) ==
  IF KeyAt(values, key) = 0
  THEN Append(values, [key |-> key, value |-> value])
  ELSE [values EXCEPT ![KeyAt(values, key)].value = value]

\* del self._values[key]
DictDel(values, key) ==
  [j \in 1..(Len(values) - 1) |-> IF j < KeyAt(values, key) THEN values[j] ELSE values[j + 1]]

\* ValueStore.add
ValueStore_add(s, key, value) ==
  [s EXCEPT !.values = DictSet(s.values, key, value), !.write_count = @ + 1]

\* ValueStore.get: the store afterwards and what is returned
ValueStore_get(s, key) ==
  IF KeyAt(s.values, key) = 0
  THEN [s |-> s, ret |-> None]
  ELSE [s |-> [s EXCEPT !.read_count = @ + 1], ret |-> Ok(s.values[KeyAt(s.values, key)].value)]

\* a remove that answers True whether or not the key was there
ValueStore_remove_always_true(s, key) ==
  [s |-> IF KeyAt(s.values, key) # 0 THEN [s EXCEPT !.values = DictDel(s.values, key)] ELSE s,
   ret |-> TRUE]

\* ValueStore.remove: the store afterwards and what is returned
ValueStore_remove(s, key) ==
  IF KeyAt(s.values, key) # 0
  THEN [s |-> [s EXCEPT !.values = DictDel(s.values, key)], ret |-> TRUE]
  ELSE [s |-> s, ret |-> FALSE]

\* ValueStore.clear
ValueStore_clear(s) == [s EXCEPT !.values = <<>>]

\* ValueStore.size
ValueStore_size(s) == Len(s.values)

\* struct.pack("<I", n) of a length
PackLen(n) == StructPack(IntOf(n), 4, FALSE).val

\* a length no buffer of the model reaches; a length field read from a
\* buffer that is this large or larger is held as this number
HugeLen == 256 * 256 * 256

\* struct.unpack_from("<I", binary_data, offset)[0]
UnpackLen(binary_data, offset) ==
  With(MagNorm(SubSeq(binary_data, offset + 1, offset + 4)), LAMBDA mag :
    IF Len(mag) <= 3 THEN MagToNat(mag) ELSE HugeLen)

\* the loop of serialize_binary over self._values.items()
RECURSIVE SerializeEntries(_)
SerializeEntries(values) ==
  IF values = <<>> THEN <<>>
  ELSE PackLen(Len(Utf8Encode(values[1].key))) \o Utf8Encode(values[1].key)
         \o <<values[1].value.type>>
         \o PackLen(Len(values[1].value.data)) \o values[1].value.data
         \o SerializeEntries(Tail(values))

\* ValueStore.serialize_binary: the store afterwards and the bytes returned
serialize_binary(s) ==
  [s |-> [s EXCEPT !.serialization_count = @ + 1],
   ret |-> Ok(<<BINARY_VERSION>> \o PackLen(Len(s.values)) \o SerializeEntries(s.values))]

\* BoolValue.from_data: struct.unpack("?", data), then the constructor
BoolValue_from_data(name, data) ==
  IF Len(data) # 1 THEN Raised("struct.error") ELSE BoolValue(name, data[1] # 0)

\* from_data of the integer classes without a range policy: struct.unpack in
\* native byte order (little-endian on the platforms the package runs on),
\* then the constructor
NumericValue_from_data(name, value_type, data, nbytes, signed) ==
  With(StructUnpack(data, nbytes, signed), LAMBDA value :
    IF value.ok THEN NumericValue(name, value_type, value.val, nbytes, signed) ELSE value)

\* StringValue.from_data: data.decode("utf-8"), then the constructor
StringValue_from_data(name, data) ==
  With(Utf8Decode(data), LAMBDA value :
    IF value.ok THEN StringValue(name, value.val) ELSE value)

\* FloatValue.from_data and DoubleValue.from_data: the number is held as the
\* bytes it packs to
FloatValue_from_data(name, value_type, data, nbytes) ==
  IF Len(data) # nbytes THEN Raised("struct.error")
  ELSE Ok(Value(name, value_type, NoNative, data))

\* ValueStore._create_value_from_binary without its try: the from_data of
\* the class, None for the other type codes
FromBinary(name, value_type, data) ==
  CASE value_type = BOOL_VALUE -> BoolValue_from_data(name, data)
    [] value_type = SHORT_VALUE -> NumericValue_from_data(name, value_type, data, 2, TRUE)
    [] value_type = USHORT_VALUE -> NumericValue_from_data(name, value_type, data, 2, FALSE)
    [] value_type = INT_VALUE -> NumericValue_from_data(name, value_type, data, 4, TRUE)
    [] value_type = UINT_VALUE -> NumericValue_from_data(name, value_type, data, 4, FALSE)
    [] value_type = LONG_VALUE -> LongValue_from_data(name, data)
    [] value_type = ULONG_VALUE -> ULongValue_from_data(name, data)
    [] value_type = LLONG_VALUE -> NumericValue_from_data(name, value_type, data, 8, TRUE)
    [] value_type = ULLONG_VALUE -> NumericValue_from_data(name, value_type, data, 8, FALSE)
    [] value_type = FLOAT_VALUE -> FloatValue_from_data(name, value_type, data, 4)
    [] value_type = DOUBLE_VALUE -> FloatValue_from_data(name, value_type, data, 8)
    [] value_type = STRING_VALUE -> StringValue_from_data(name, data)
    [] value_type = BYTES_VALUE -> BytesValue(name, data)
    [] OTHER -> None

\* ValueStore._create_value_from_binary: an exception gives None
create_value_from_binary(name, value_type, data) ==
  With(FromBinary(name, value_type, data), LAMBDA value :
    IF value.ok THEN value ELSE None)

\* "if value: store._values[key] = value" in deserialize_binary
StoreIfTruthy(values, key, value) ==
  IF value.ok /\ Truthy(value.val) THEN DictSet(values, key, value.val) ELSE values

\* a loop that takes a buffer ending between two entries as complete
RECURSIVE ReadEntries_lenient(_, _, _, _, _)
ReadEntries_lenient(binary_data, offset, i, count, values) ==
  IF i = count \/ offset = Len(binary_data) THEN Ok([ValueStore EXCEPT !.values = values])
  ELSE IF offset + 4 > Len(binary_data) THEN Raised("RuntimeError")
  ELSE With(UnpackLen(binary_data, offset), LAMBDA key_len :
    IF offset + 4 + key_len + 5 > Len(binary_data) THEN Raised("RuntimeError")
    ELSE With(Utf8Decode(SubSeq(binary_data, offset + 5, offset + 4 + key_len)), LAMBDA key :
      With(offset + 4 + key_len + 5, LAMBDA data_at :
        IF ~key.ok \/ binary_data[offset + 4 + key_len + 1] > 15
        THEN Raised("RuntimeError")
        ELSE With(UnpackLen(binary_data, data_at - 4), LAMBDA value_len :
          IF data_at + value_len > Len(binary_data) THEN Raised("RuntimeError")
          ELSE ReadEntries_lenient(binary_data, data_at + value_len, i + 1, count,
                 StoreIfTruthy(values, key.val,
                   create_value_from_binary(key.val, binary_data[offset + 4 + key_len + 1],
                     SubSeq(binary_data, data_at + 1, data_at + value_len))))))))

\* the loop of deserialize_binary: entry i of count is read at offset
RECURSIVE ReadEntries(_, _, _, _, _)
ReadEntries(binary_data, offset, i, count, values) ==
  IF i = count THEN Ok([ValueStore EXCEPT !.values = values])
  ELSE IF offset + 4 > Len(binary_data) THEN Raised("RuntimeError")
  ELSE With(UnpackLen(binary_data, offset), LAMBDA key_len :
    IF offset + 4 + key_len + 5 > Len(binary_data) THEN Raised("RuntimeError")
    ELSE With(Utf8Decode(SubSeq(binary_data, offset + 5, offset + 4 + key_len)), LAMBDA key :
      With(offset + 4 + key_len + 5, LAMBDA data_at :
        IF ~key.ok \/ binary_data[offset + 4 + key_len + 1] > 15
        THEN Raised("RuntimeError")
        ELSE With(UnpackLen(binary_data, data_at - 4), LAMBDA value_len :
          IF data_at + value_len > Len(binary_data) THEN Raised("RuntimeError")
          ELSE ReadEntries(binary_data, data_at + value_len, i + 1, count,
                 StoreIfTruthy(values, key.val,
                   create_value_from_binary(key.val, binary_data[offset + 4 + key_len + 1],
                     SubSeq(binary_data, data_at + 1, data_at + value_len))))))))

\* ValueStore.deserialize_binary: a store, or RuntimeError
deserialize_binary(binary_data) ==
  IF Len(binary_data) < 5 THEN Raised("RuntimeError")
  ELSE IF binary_data[1] # BINARY_VERSION THEN Raised("RuntimeError")
  ELSE ReadEntries(binary_data, 5, 0, UnpackLen(binary_data, 1), <<>>)

(***************************************************************************)
(* JsonV2Adapter.  A JSON document is kept as the tree json.loads returns  *)
(* and json.dumps takes: an object is a record (its keys are the members   *)
(* present), an array a sequence, and the "data" member of a value, whose  *)
(* JSON type varies, a tagged record: JNull, JBool, JInt, JStr or JList.   *)
(* Float values are not modelled.                                          *)
(***************************************************************************)
JNull == [j |-> "null"]

JBool(b) == [j |-> "bool", b |-> b]

JInt(n) == [j |-> "int", n |-> n]

JStr(s) == [j |-> "str", s |-> s]

JList(l) == [j |-> "list", l |-> l]

V2_FORMAT_VERSION == <<"2", ".", "0">>

\* JsonV2Adapter.TYPE_NAME_MAP.get(value.type, "unknown")
TYPE_NAME_MAP(value_type) ==
  CASE value_type = NULL_VALUE -> "null"
    [] value_type = BOOL_VALUE -> "bool"
    [] value_type = SHORT_VALUE -> "short"
    [] value_type = USHORT_VALUE -> "ushort"
    [] value_type = INT_VALUE -> "int"
    [] value_type = UINT_VALUE -> "uint"
    [] value_type = LONG_VALUE -> "long"
    [] value_type = ULONG_VALUE -> "ulong"
    [] value_type = LLONG_VALUE -> "llong"
    [] value_type = ULLONG_VALUE -> "ullong"
    [] value_type = FLOAT_VALUE -> "float"
    [] value_type = DOUBLE_VALUE -> "double"
    [] value_type = BYTES_VALUE -> "bytes"
    [] value_type = STRING_VALUE -> "string"
    [] value_type = CONTAINER_VALUE -> "container"
    [] OTHER -> "unknown"

\* value.to_long(): LongValue overrides it and returns the value; the other
\* classes inherit Value.to_long, which returns the default 0
to_long(value) == IF value.type = LONG_VALUE THEN value.value.n ELSE IntOf(0)

\* the "data" member _value_to_v2_dict writes
RECURSIVE V2Data(_)
V2Data(value) ==
  CASE value.type = NULL_VALUE -> JNull
    [] value.type = BOOL_VALUE -> JBool(value.value.b)
    [] value.type \in {SHORT_VALUE, USHORT_VALUE, INT_VALUE, UINT_VALUE} -> JInt(value.value.n)
    [] value.type \in {LONG_VALUE, ULONG_VALUE, LLONG_VALUE, ULLONG_VALUE} -> JInt(to_long(value))
    [] value.type = STRING_VALUE -> JStr(value.value.s)
    [] value.type = BYTES_VALUE -> JStr(B64Encode(value.data))
    [] value.type = CONTAINER_VALUE ->
         JList([j \in 1..Len(value.units) |->
                  [name |-> value.units[j].name, type |-> value.units[j].type,
                   type_name |-> TYPE_NAME_MAP(value.units[j].type),
                   data |-> V2Data(value.units[j])]])

\* JsonV2Adapter._value_to_v2_dict; the members "encoding" (always base64,
\* on bytes) and "child_count" (never read back) are left out
value_to_v2_dict(value) ==
  [name |-> value.name, type |-> value.type, type_name |-> TYPE_NAME_MAP(value.type),
   data |-> V2Data(value)]

\* JsonV2Adapter.to_v2_json, up to json.dumps
to_v2_json(container) ==
  [container |->
     [version |-> V2_FORMAT_VERSION,
      metadata |->
        [message_type |-> container.message_type,
         protocol_version |-> container.version,
         source |-> [id |-> container.source_id, sub_id |-> container.source_sub_id],
         target |-> [id |-> container.target_id, sub_id |-> container.target_sub_id]],
      values |-> [j \in 1..Len(container.units) |-> value_to_v2_dict(container.units[j])]]]

\* int(data) on the JSON types _value_to_v2_dict writes for numbers
PyInt(data) ==
  CASE data.j = "int" -> Ok(data.n)
    [] data.j = "bool" -> Ok(IntOf(IF data.b THEN 1 ELSE 0))
    [] data.j = "str" -> StrToInt(data.s)
    [] data.j = "list" -> Raised("TypeError")

\* bool(data)
PyBool(data) ==
  CASE data.j = "int" -> data.n.mag # <<>>
    [] data.j = "bool" -> data.b
    [] data.j = "str" -> data.s # <<>>
    [] data.j = "list" -> data.l # <<>>

\* the integer classes by type code: width and signedness of the format
IntegerValue(name, value_type, value) ==
  CASE value_type = SHORT_VALUE -> ShortValue(name, value)
    [] value_type = USHORT_VALUE -> UShortValue(name, value)
    [] value_type = INT_VALUE -> IntValue(name, value)
    [] value_type = UINT_VALUE -> UIntValue(name, value)
    [] value_type = LONG_VALUE -> LongValue(name, value)
    [] value_type = ULONG_VALUE -> ULongValue(name, value)
    [] value_type = LLONG_VALUE -> LLongValue(name, value)
    [] value_type = ULLONG_VALUE -> ULLongValue(name, value)

\* "if child: container_value.add(child)": the children that are built and
\* true
KeepTruthy(built) ==
  [j \in 1..Len(SelectSeq(built, LAMBDA v : v.ok /\ Truthy(v.val))) |->
     SelectSeq(built, LAMBDA v : v.ok /\ Truthy(v.val))[j].val]

\* the body of the try of _v2_dict_to_value for the type codes 0..14 without
\* the floats; str(data) is taken on strings only
RECURSIVE V2Build(_)
V2Build(value_data) ==
  CASE value_data.type = NULL_VALUE -> StringValue(value_data.name, <<>>)
    [] value_data.type = BOOL_VALUE ->
         BoolValue(value_data.name, value_data.data.j # "null" /\ PyBool(value_data.data))
    [] value_data.type \in SHORT_VALUE..ULLONG_VALUE ->
         IF value_data.data.j = "null"
         THEN IntegerValue(value_data.name, value_data.type, IntOf(0))
         ELSE IF PyInt(value_data.data).ok
         THEN IntegerValue(value_data.name, value_data.type, PyInt(value_data.data).val)
         ELSE PyInt(value_data.data)
    [] value_data.type = STRING_VALUE ->
         StringValue(value_data.name, IF value_data.data.j = "null" THEN <<>> ELSE value_data.data.s)
    [] value_data.type = BYTES_VALUE ->
         IF value_data.data.j = "null" THEN BytesValue(value_data.name, <<>>)
         ELSE IF B64Decode(value_data.data.s).ok
         THEN BytesValue(value_data.name, B64Decode(value_data.data.s).val)
         ELSE B64Decode(value_data.data.s)
    [] value_data.type = CONTAINER_VALUE ->
         ContainerValue(value_data.name,
           IF value_data.data.j = "list"
           THEN KeepTruthy([j \in 1..Len(value_data.data.l) |->
                              With(V2Build(value_data.data.l[j]), LAMBDA child :
                                IF child.ok THEN child ELSE None)])
           ELSE <<>>)

\* JsonV2Adapter._v2_dict_to_value: an exception gives None
v2_dict_to_value(value_data) ==
  With(V2Build(value_data), LAMBDA value : IF value.ok THEN value ELSE None)

\* the loop of from_v2_json: "if value: container.add(value)"
RECURSIVE AddTruthy(_, _, _)
AddTruthy(container, self, built) ==
  IF built = <<>> THEN container
  ELSE AddTruthy(IF built[1].ok /\ Truthy(built[1].val)
                 THEN add(container, self, built[1].val, FALSE)
                 ELSE container,
                 self, Tail(built))

\* JsonV2Adapter.from_v2_json, after json.loads, of a document that has the
\* members to_v2_json writes
from_v2_json(data, self) ==
  IF "container" \notin DOMAIN data THEN Raised("ValueError")
  ELSE IF data.container.version # V2_FORMAT_VERSION THEN Raised("ValueError")
  ELSE With(data.container.metadata, LAMBDA metadata :
    Ok(AddTruthy(
         [ValueContainer(metadata.source.id, metadata.source.sub_id,
                         metadata.target.id, metadata.target.sub_id,
                         metadata.message_type, <<>>)
            EXCEPT !.version = metadata.protocol_version],
         self,
         [j \in 1..Len(data.container.values) |-> v2_dict_to_value(data.container.values[j])])))

JDict(members) == [j |-> "dict", members |-> members]

\* to_string() of a scalar value: "true"/"false", the decimal numeral, the
\* text, the base64 of the bytes
to_string(value) ==
  CASE value.type = BOOL_VALUE ->
         IF value.value.b THEN <<"t", "r", "u", "e">> ELSE <<"f", "a", "l", "s", "e">>
    [] IsIntegerType(value.type) -> IntToStr(value.value.n)
    [] value.type = STRING_VALUE -> value.value.s
    [] value.type = BYTES_VALUE -> B64Encode(value.value.y)

\* the document a C++ peer writes for a container of scalar units with
\* different names: a "header" object and a "values" object by name, the
\* data of a value as text
CppDocument(container) ==
  [header |->
     [target_id |-> container.target_id, target_sub_id |-> container.target_sub_id,
      source_id |-> container.source_id, source_sub_id |-> container.source_sub_id,
      message_type |-> container.message_type, version |-> container.version],
   values |-> JDict([j \in 1..Len(container.units) |->
                       [key |-> container.units[j].name,
                        value |-> [type |-> container.units[j].type,
                                   data |-> to_string(container.units[j])]]])]

\* ValueContainer.to_json with Value.to_json for each unit, up to json.dumps:
\* the flat document of the Python and .NET peers
to_json(container) ==
  [source_id |-> container.source_id, source_sub_id |-> container.source_sub_id,
   target_id |-> container.target_id, target_sub_id |-> container.target_sub_id,
   message_type |-> container.message_type, version |-> container.version,
   values |-> JList([j \in 1..Len(container.units) |->
                       [name |-> container.units[j].name,
                        type |-> get_string_from_type(container.units[j].type),
                        data |-> to_string(container.units[j])]])]

\* json.dumps of a string: the quotation mark and the backslash are escaped
RECURSIVE JsonString(_)
JsonString(s) ==
  IF s = <<>> THEN <<>>
  ELSE (IF s[1] \in {"\"", "\\"} THEN <<"\\", s[1]>> ELSE <<s[1]>>) \o JsonString(Tail(s))

\* "key": "text" on a line of its own, indented by n blanks
JsonMember(n, key, text, last) ==
  [j \in 1..n |-> " "] \o <<"\"">> \o key \o <<"\"", ":", " ", "\"">> \o JsonString(text)
    \o <<"\"">> \o (IF last THEN <<>> ELSE <<",">>) \o <<"\n">>

RECURSIVE JsonValueLines(_, _)
JsonValueLines(l, j) ==
  IF j > Len(l) THEN <<>>
  ELSE <<" ", " ", " ", " ", "{", "\n">>
         \o JsonMember(6, <<"n", "a", "m", "e">>, l[j].name, FALSE)
         \o JsonMember(6, <<"t", "y", "p", "e">>, l[j].type, FALSE)
         \o JsonMember(6, <<"d", "a", "t", "a">>, l[j].data, TRUE)
         \o <<" ", " ", " ", " ", "}">> \o (IF j = Len(l) THEN <<>> ELSE <<",">>) \o <<"\n">>
         \o JsonValueLines(l, j + 1)

\* json.dumps(data, ensure_ascii=False, indent=2) of a flat document
JsonText(data) ==
  <<"{", "\n">>
    \o JsonMember(2, <<"s", "o", "u", "r", "c", "e", "_", "i", "d">>, data.source_id, FALSE)
    \o JsonMember(2, <<"s", "o", "u", "r", "c", "e", "_", "s", "u", "b", "_", "i", "d">>,
                  data.source_sub_id, FALSE)
    \o JsonMember(2, <<"t", "a", "r", "g", "e", "t", "_", "i", "d">>, data.target_id, FALSE)
    \o JsonMember(2, <<"t", "a", "r", "g", "e", "t", "_", "s", "u", "b", "_", "i", "d">>,
                  data.target_sub_id, FALSE)
    \o JsonMember(2, <<"m", "e", "s", "s", "a", "g", "e", "_", "t", "y", "p", "e">>,
                  data.message_type, FALSE)
    \o JsonMember(2, <<"v", "e", "r", "s", "i", "o", "n">>, data.version, FALSE)
    \o <<" ", " ", "\"", "v", "a", "l", "u", "e", "s", "\"", ":", " ", "[">>
    \o (IF data.values.l = <<>> THEN <<>>
        ELSE <<"\n">> \o JsonValueLines(data.values.l, 1) \o <<" ", " ">>)
    \o <<"]", "\n", "}">>

\* the body of the try of _cpp_value_to_value; the data of a value is text
CppBuild(name, value_data) ==
  CASE value_data.type = BOOL_VALUE ->
         BoolValue(name, Lower(value_data.data) \in
                           {<<"t", "r", "u", "e">>, <<"1">>, <<"y", "e", "s">>})
    [] value_data.type \in {SHORT_VALUE, USHORT_VALUE, INT_VALUE, UINT_VALUE} ->
         IntFromString(name, INT_VALUE, value_data.data)
    [] value_data.type \in {LONG_VALUE, ULONG_VALUE, LLONG_VALUE, ULLONG_VALUE} ->
         IntFromString(name, LONG_VALUE, value_data.data)
    [] value_data.type = STRING_VALUE -> StringValue(name, value_data.data)
    [] value_data.type = BYTES_VALUE ->
         IF B64Decode(value_data.data).ok
         THEN BytesValue(name, B64Decode(value_data.data).val)
         ELSE B64Decode(value_data.data)
    [] OTHER -> None

\* JsonV2Adapter.from_cpp_json, after json.loads, of a document with all the
\* header members
from_cpp_json(data, self) ==
  AddTruthy(
    [ValueContainer(data.header.source_id, data.header.source_sub_id,
                    data.header.target_id, data.header.target_sub_id,
                    data.header.message_type, <<>>)
       EXCEPT !.version = data.header.version],
    self,
    [j \in 1..Len(data.values.members) |->
       With(CppBuild(data.values.members[j].key, data.values.members[j].value), LAMBDA value :
         IF value.ok THEN value ELSE None)])

\* JsonV2Adapter.detect_format, after json.loads
detect_format(data) ==
  IF "container" \in DOMAIN data /\ data.container.version = V2_FORMAT_VERSION THEN "v2.0"
  ELSE IF "header" \in DOMAIN data /\ "values" \in DOMAIN data /\ data.values.j = "dict" THEN "cpp"
  ELSE IF "message_type" \in DOMAIN data /\ "values" \in DOMAIN data /\ data.values.j = "list"
  THEN "python"
  ELSE "unknown"

\* JsonV2Adapter.convert_format(json_str, "v2.0"): the container read by the
\* reader of the format detected, then to_v2_json; the Python flat document
\* goes as text to ValueContainer(data_string=json_str)
convert_format(data, self) ==
  CASE detect_format(data) = "v2.0" ->
         IF from_v2_json(data, self).ok THEN Ok(to_v2_json(from_v2_json(data, self).val))
         ELSE from_v2_json(data, self)
    [] detect_format(data) = "cpp" -> Ok(to_v2_json(from_cpp_json(data, self)))
    [] detect_format(data) = "python" ->
         Ok(to_v2_json(deserialize(ValueContainer(<<>>, <<>>, <<>>, <<>>, <<>>, <<>>), self,
                                    JsonText(data), FALSE).c))
    [] OTHER -> Raised("ValueError")

(***************************************************************************)
(* MessagePackSerializer: pack and unpack of plain Python objects          *)
(***************************************************************************)

\* the type codes of MessagePackSerializer (TRUE and FALSE are words of
\* TLA+, so the two bool codes carry a prefix)
NIL == 192
MP_FALSE == 194
MP_TRUE == 195
BIN8 == 196
BIN16 == 197
BIN32 == 198
FLOAT32 == 202
FLOAT64 == 203
UINT8 == 204
UINT16 == 205
UINT32 == 206
UINT64 == 207
INT8 == 208
INT16 == 209
INT32 == 210
INT64 == 211
STR8 == 217
STR16 == 218
STR32 == 219
ARRAY16 == 220
ARRAY32 == 221
MAP16 == 222
MAP32 == 223

\* the Python objects pack takes: None, bool, int, str, bytes, list, dict
\* (a dict as its items in insertion order)
PyNone == [m |-> "nil"]

PyBoolean(b) == [m |-> "bool", b |-> b]

PyInteger(n) == [m |-> "int", n |-> n]

PyStr(s) == [m |-> "str", s |-> s]

PyBytes(data) == [m |-> "bin", data |-> data]

PyList(l) == [m |-> "list", l |-> l]

PyDict(members) == [m |-> "map", members |-> members]

\* a Python float, held as the decimal text whose nearest double it is
PyFloat(text) == [m |-> "float", text |-> text]

\* Value._safe_convert: ValueError on a value of type NULL_VALUE, the default
\* otherwise
safe_convert_never_raises(value, default_value) == Ok(default_value)

safe_convert(value, default_value) ==
  IF value.type = NULL_VALUE THEN Raised("ValueError") ELSE Ok(default_value)

\* float(n) of an int: OverflowError from 2^1024 on
IntToFloat(n) ==
  IF Len(n.mag) > 128 THEN Raised("OverflowError") ELSE Ok(PyFloat(IntToStr(n)))

\* the part of a float literal before the exponent: digits, a point, or both
IsMantissa(t) ==
  With(Find(t, <<".">>, 1), LAMBDA dot :
    IF dot = 0 THEN IsDecimalLiteral(t)
    ELSE /\ Len(t) > 1
         /\ dot = 1 \/ IsDecimalLiteral(SubSeq(t, 1, dot - 1))
         /\ dot = Len(t) \/ IsDecimalLiteral(From(t, dot + 1)))

\* the exponent of a float literal: an optional sign, then digits
IsExponent(t) ==
  IsDecimalLiteral(IF t # <<>> /\ t[1] \in {"-", "+"} THEN Tail(t) ELSE t)

\* an unsigned float literal in lower case
IsFloatLiteral(t) ==
  \/ t \in {<<"i", "n", "f">>, <<"i", "n", "f", "i", "n", "i", "t", "y">>, <<"n", "a", "n">>}
  \/ With(Find(t, <<"e">>, 1), LAMBDA e :
       IF e = 0 THEN IsMantissa(t)
       ELSE IsMantissa(SubSeq(t, 1, e - 1)) /\ IsExponent(From(t, e + 1)))

\* float(text): blanks around the literal and a sign are accepted
StrToFloat(s) ==
  With(Lower(Strip(s)), LAMBDA body :
    IF IsFloatLiteral(IF body # <<>> /\ body[1] \in {"-", "+"} THEN Tail(body) ELSE body)
    THEN Ok(PyFloat(body))
    ELSE Raised("ValueError"))

\* try: return f(self._value)  except ValueError: return default
OrDefault(res, default_value) ==
  IF ~res.ok /\ res.err = "ValueError" THEN Ok(default_value) ELSE res

\* the narrowing accessors of Value
Accessors ==
  { "to_boolean", "to_short", "to_ushort", "to_int", "to_uint", "to_long",
    "to_ulong", "to_llong", "to_ullong", "to_float", "to_double" }

\* the integer class that overrides an accessor to return its value
OverriddenBy(fn) ==
  CASE fn = "to_short" -> SHORT_VALUE
    [] fn = "to_ushort" -> USHORT_VALUE
    [] fn = "to_uint" -> UINT_VALUE
    [] fn = "to_long" -> LONG_VALUE
    [] fn = "to_ulong" -> ULONG_VALUE
    [] fn = "to_llong" -> LLONG_VALUE
    [] fn = "to_ullong" -> ULLONG_VALUE

\* value.fn() for an accessor fn, on a NullValue, BoolValue, StringValue,
\* BytesValue or a value of an integer class: the override of the class when
\* it has one, Value.fn otherwise
Convert(value, fn) ==
  CASE fn = "to_boolean" ->
         (CASE value.type = BOOL_VALUE -> Ok(PyBoolean(value.value.b))
            [] value.type = STRING_VALUE -> Ok(PyBoolean(value.value.s # <<>>))
            [] OTHER -> safe_convert(value, PyBoolean(FALSE)))
    [] fn = "to_int" ->
         (CASE value.type = BOOL_VALUE ->
                 Ok(PyInteger(IntOf(IF value.value.b THEN 1 ELSE 0)))
            [] IsIntegerType(value.type) -> Ok(PyInteger(value.value.n))
            [] value.type = STRING_VALUE ->
                 With(OrDefault(StrToInt(value.value.s), IntOf(0)), LAMBDA n :
                   IF n.ok THEN Ok(PyInteger(n.val)) ELSE n)
            [] OTHER -> safe_convert(value, PyInteger(IntOf(0))))
    [] fn = "to_float" ->
         (CASE IsIntegerType(value.type) -> IntToFloat(value.value.n)
            [] value.type = STRING_VALUE ->
                 OrDefault(StrToFloat(value.value.s), PyFloat(<<"0", ".", "0">>))
            [] OTHER -> safe_convert(value, PyFloat(<<"0", ".", "0">>)))
    [] fn = "to_double" ->
         (CASE IsIntegerType(value.type) -> IntToFloat(value.value.n)
            [] OTHER -> safe_convert(value, PyFloat(<<"0", ".", "0">>)))
    [] OTHER ->
         IF value.type = OverriddenBy(fn) THEN Ok(PyInteger(value.value.n))
         ELSE safe_convert(value, PyInteger(IntOf(0)))

Reverse(b) == [j \in 1..Len(b) |-> b[Len(b) + 1 - j]]

\* struct.pack(">H" ...), (">i" ...): n bytes, most significant first
StructPackBE(v, n, signed) ==
  With(StructPack(v, n, signed), LAMBDA r : IF r.ok THEN Ok(Reverse(r.val)) ELSE r)

\* data[from:to] of Python, from >= 0
Slice(data, from, to) ==
  SubSeq(data, from + 1, IF to < Len(data) THEN to ELSE Len(data))

\* struct.unpack(">H", data[offset : offset + n])[0] and its like
StructUnpackBE(data, offset, n, signed) ==
  StructUnpack(Reverse(Slice(data, offset, offset + n)), n, signed)

\* 0xFF, 0xFFFF, 0xFFFFFFFF, 0xFFFFFFFFFFFFFFFF
AllOnes(n) == MkInt(FALSE, [j \in 1..n |-> 255])

\* -0x80, -0x8000, -0x80000000
MinSigned(n) == MkInt(TRUE, [j \in 1..n |-> IF j = n THEN 128 ELSE 0])

\* _pack_int with the uint8 range written under the int8 code
pack_int_uint8_as_int8(n) ==
  IF ~n.neg /\ IntLE(n, IntOf(127)) THEN Ok(<<MagToNat(n.mag)>>)
  ELSE IF IntLE(IntOf(0 - 32), n) /\ n.neg THEN Ok(<<256 - MagToNat(n.mag)>>)
  ELSE IF ~n.neg /\ IntLE(n, AllOnes(1)) THEN Ok(<<INT8, MagToNat(n.mag)>>)
  ELSE IF ~n.neg /\ IntLE(n, AllOnes(2))
       THEN Ok(<<UINT16>> \o StructPackBE(n, 2, FALSE).val)
  ELSE IF ~n.neg /\ IntLE(n, AllOnes(4))
       THEN Ok(<<UINT32>> \o StructPackBE(n, 4, FALSE).val)
  ELSE IF ~n.neg /\ IntLE(n, AllOnes(8))
       THEN Ok(<<UINT64>> \o StructPackBE(n, 8, FALSE).val)
  ELSE IF IntLE(MinSigned(1), n) /\ n.neg
       THEN Ok(<<INT8>> \o StructPack(n, 1, TRUE).val)
  ELSE IF IntLE(MinSigned(2), n) /\ n.neg
       THEN Ok(<<INT16>> \o StructPackBE(n, 2, TRUE).val)
  ELSE IF IntLE(MinSigned(4), n) /\ n.neg
       THEN Ok(<<INT32>> \o StructPackBE(n, 4, TRUE).val)
  ELSE With(StructPackBE(n, 8, TRUE), LAMBDA r :
         IF r.ok THEN Ok(<<INT64>> \o r.val) ELSE r)

\* MessagePackSerializer._pack_int: the first range that holds n, tried in
\* the order of the code; the last branch raises struct.error when n is
\* outside the 64-bit signed range
pack_int(n) ==
  IF ~n.neg /\ IntLE(n, IntOf(127)) THEN Ok(<<MagToNat(n.mag)>>)
  ELSE IF IntLE(IntOf(0 - 32), n) /\ n.neg THEN Ok(<<256 - MagToNat(n.mag)>>)
  ELSE IF ~n.neg /\ IntLE(n, AllOnes(1)) THEN Ok(<<UINT8, MagToNat(n.mag)>>)
  ELSE IF ~n.neg /\ IntLE(n, AllOnes(2))
       THEN Ok(<<UINT16>> \o StructPackBE(n, 2, FALSE).val)
  ELSE IF ~n.neg /\ IntLE(n, AllOnes(4))
       THEN Ok(<<UINT32>> \o StructPackBE(n, 4, FALSE).val)
  ELSE IF ~n.neg /\ IntLE(n, AllOnes(8))
       THEN Ok(<<UINT64>> \o StructPackBE(n, 8, FALSE).val)
  ELSE IF IntLE(MinSigned(1), n) /\ n.neg
       THEN Ok(<<INT8>> \o StructPack(n, 1, TRUE).val)
  ELSE IF IntLE(MinSigned(2), n) /\ n.neg
       THEN Ok(<<INT16>> \o StructPackBE(n, 2, TRUE).val)
  ELSE IF IntLE(MinSigned(4), n) /\ n.neg
       THEN Ok(<<INT32>> \o StructPackBE(n, 4, TRUE).val)
  ELSE With(StructPackBE(n, 8, TRUE), LAMBDA r :
         IF r.ok THEN Ok(<<INT64>> \o r.val) ELSE r)

\* struct.pack(">H", length), struct.pack(">I", length)
LengthBE(length, n) == StructPackBE(IntOf(length), n, FALSE).val

\* MessagePackSerializer._pack_str (0xA0 | length is 160 + length up to 31)
pack_str(s) ==
  With(Utf8Encode(s), LAMBDA data :
    IF Len(data) <= 31 THEN <<160 + Len(data)>> \o data
    ELSE IF Len(data) <= 255 THEN <<STR8, Len(data)>> \o data
    ELSE IF Len(data) <= 65535 THEN <<STR16>> \o LengthBE(Len(data), 2) \o data
    ELSE <<STR32>> \o LengthBE(Len(data), 4) \o data)

\* MessagePackSerializer._pack_bin
pack_bin(b) ==
  IF Len(b) <= 255 THEN <<BIN8, Len(b)>> \o b
  ELSE IF Len(b) <= 65535 THEN <<BIN16>> \o LengthBE(Len(b), 2) \o b
  ELSE <<BIN32>> \o LengthBE(Len(b), 4) \o b

\* the header of _pack_array (fix is 0x90) and of _pack_map (fix is 0x80)
pack_header(fix, code16, code32, length) ==
  IF length <= 15 THEN <<fix + length>>
  ELSE IF length <= 65535 THEN <<code16>> \o LengthBE(length, 2)
  ELSE <<code32>> \o LengthBE(length, 4)

\* the bytes of parts[lo..hi] in a row (halving keeps the evaluation shallow)
RECURSIVE JoinBytes(_, _, _)
JoinBytes(parts, lo, hi) ==
  IF lo > hi THEN <<>>
  ELSE IF lo = hi THEN parts[lo].val
  ELSE JoinBytes(parts, lo, (lo + hi) \div 2) \o JoinBytes(parts, (lo + hi) \div 2 + 1, hi)

\* b"".join of packed parts: the first part that raised, raises
JoinPacked(parts) ==
  IF \E j \in 1..Len(parts) : ~parts[j].ok
  THEN parts[CHOOSE j \in 1..Len(parts) :
               ~parts[j].ok /\ \A l \in 1..(j - 1) : parts[l].ok]
  ELSE Ok(JoinBytes(parts, 1, Len(parts)))

\* MessagePackSerializer.pack, with _pack_array and _pack_map
RECURSIVE pack(_)
pack(obj) ==
  CASE obj.m = "nil" -> Ok(<<NIL>>)
    [] obj.m = "bool" -> Ok(<<IF obj.b THEN MP_TRUE ELSE MP_FALSE>>)
    [] obj.m = "int" -> pack_int(obj.n)
    [] obj.m = "str" -> Ok(pack_str(obj.s))
    [] obj.m = "bin" -> Ok(pack_bin(obj.data))
    [] obj.m = "list" ->
         JoinPacked(<<Ok(pack_header(144, ARRAY16, ARRAY32, Len(obj.l)))>>
                    \o [j \in 1..Len(obj.l) |-> pack(obj.l[j])])
    [] obj.m = "map" ->
         JoinPacked(<<Ok(pack_header(128, MAP16, MAP32, Len(obj.members)))>>
                    \o [j \in 1..(2 * Len(obj.members)) |->
                          IF j % 2 = 1 THEN pack(obj.members[(j + 1) \div 2].key)
                          ELSE pack(obj.members[j \div 2].value)])
    [] OTHER -> Raised("TypeError")

\* a value and the offset behind it, as _unpack_one returns them
Unpacked(v, at) == Ok([v |-> v, at |-> at])

\* a length field of 2 or 4 bytes at the offset
LengthAt(data, offset, n) ==
  With(StructUnpackBE(data, offset, n, FALSE), LAMBDA r :
    IF ~r.ok THEN r
    ELSE IF Len(r.val.mag) <= 3 THEN Ok(MagToNat(r.val.mag)) ELSE Ok(HugeLen))

\* an integer of n bytes at the offset
IntAt(data, offset, n, signed) ==
  With(StructUnpackBE(data, offset, n, signed), LAMBDA r :
    IF r.ok THEN Unpacked(PyInteger(r.val), offset + n) ELSE r)

\* data[from : from + length].decode("utf-8") with the offset behind it
StrAt(data, from, length) ==
  With(Utf8Decode(Slice(data, from, from + length)), LAMBDA r :
    IF r.ok THEN Unpacked(PyStr(r.val), from + length) ELSE r)

BinAt(data, from, length) ==
  Unpacked(PyBytes(Slice(data, from, from + length)), from + length)

\* the value that follows a length field of n bytes at the offset
Sized(length, F(_)) == IF length.ok THEN F(length.val) ELSE length

\* data[offset]
ByteAt(data, offset) ==
  IF offset >= Len(data) THEN Raised("IndexError") ELSE Ok(data[offset + 1])

\* result[key] = value for the members in order: a key keeps the place of
\* its first member and takes the value of its last
DictOf(members) ==
  With({j \in 1..Len(members) : \A l \in 1..(j - 1) : members[l].key # members[j].key},
       LAMBDA firsts :
    [k \in 1..Cardinality(firsts) |->
       With(CHOOSE j \in firsts : Cardinality({l \in firsts : l < j}) = k - 1, LAMBDA j :
         [key |-> members[j].key,
          value |-> members[CHOOSE l \in j..Len(members) :
                              /\ members[l].key = members[j].key
                              /\ \A h \in (l + 1)..Len(members) :
                                   members[h].key # members[j].key].value])])

\* MessagePackSerializer._unpack_one with _unpack_array and _unpack_map:
\* code is data[offset] and at the offset behind it; the ranges of the code
\* are disjoint, floats are not among the objects here
RECURSIVE unpack_one(_, _), unpack_code(_, _, _), unpack_items(_, _, _)
RECURSIVE unpack_member(_, _), unpack_members(_, _, _)
RECURSIVE unpack_array(_, _, _), unpack_map(_, _, _)
unpack_one(data, offset) ==
  IF offset >= Len(data) THEN Raised("ValueError")
  ELSE unpack_code(data, data[offset + 1], offset + 1)

unpack_code(data, code, at) ==
  CASE code <= 127 -> Unpacked(PyInteger(IntOf(code)), at)
    [] code >= 224 -> Unpacked(PyInteger(IntOf(code - 256)), at)
    [] code = NIL -> Unpacked(PyNone, at)
    [] code = MP_FALSE -> Unpacked(PyBoolean(FALSE), at)
    [] code = MP_TRUE -> Unpacked(PyBoolean(TRUE), at)
    [] code = UINT8 ->
         Sized(ByteAt(data, at), LAMBDA n : Unpacked(PyInteger(IntOf(n)), at + 1))
    [] code = UINT16 -> IntAt(data, at, 2, FALSE)
    [] code = UINT32 -> IntAt(data, at, 4, FALSE)
    [] code = UINT64 -> IntAt(data, at, 8, FALSE)
    [] code = INT8 -> IntAt(data, at, 1, TRUE)
    [] code = INT16 -> IntAt(data, at, 2, TRUE)
    [] code = INT32 -> IntAt(data, at, 4, TRUE)
    [] code = INT64 -> IntAt(data, at, 8, TRUE)
    [] code >= 160 /\ code <= 191 -> StrAt(data, at, code % 32)
    [] code = STR8 -> Sized(ByteAt(data, at), LAMBDA n : StrAt(data, at + 1, n))
    [] code = STR16 -> Sized(LengthAt(data, at, 2), LAMBDA n : StrAt(data, at + 2, n))
    [] code = STR32 -> Sized(LengthAt(data, at, 4), LAMBDA n : StrAt(data, at + 4, n))
    [] code = BIN8 -> Sized(ByteAt(data, at), LAMBDA n : BinAt(data, at + 1, n))
    [] code = BIN16 -> Sized(LengthAt(data, at, 2), LAMBDA n : BinAt(data, at + 2, n))
    [] code = BIN32 -> Sized(LengthAt(data, at, 4), LAMBDA n : BinAt(data, at + 4, n))
    [] code >= 144 /\ code <= 159 -> unpack_array(data, at, code % 16)
    [] code = ARRAY16 ->
         IF LengthAt(data, at, 2).ok
         THEN unpack_array(data, at + 2, LengthAt(data, at, 2).val)
         ELSE LengthAt(data, at, 2)
    [] code = ARRAY32 ->
         IF LengthAt(data, at, 4).ok
         THEN unpack_array(data, at + 4, LengthAt(data, at, 4).val)
         ELSE LengthAt(data, at, 4)
    [] code >= 128 /\ code <= 143 -> unpack_map(data, at, code % 16)
    [] code = MAP16 ->
         IF LengthAt(data, at, 2).ok
         THEN unpack_map(data, at + 2, LengthAt(data, at, 2).val)
         ELSE LengthAt(data, at, 2)
    [] code = MAP32 ->
         IF LengthAt(data, at, 4).ok
         THEN unpack_map(data, at + 4, LengthAt(data, at, 4).val)
         ELSE LengthAt(data, at, 4)
    [] code \in 193..201 \ {MP_FALSE, MP_TRUE, BIN8, BIN16, BIN32}
         \/ code \in 212..216 -> Raised("ValueError")

\* the loop of _unpack_array: length items from the offset on, in order,
\* and the offset behind them; the first item that raises ends the loop
\* (the items are read in two halves to keep the evaluation shallow)
unpack_items(data, offset, length) ==
  IF length = 0 THEN Unpacked(<<>>, offset)
  ELSE IF length = 1
  THEN With(unpack_one(data, offset), LAMBDA item :
         IF item.ok THEN Unpacked(<<item.val.v>>, item.val.at) ELSE item)
  ELSE With(unpack_items(data, offset, length \div 2), LAMBDA head :
         IF ~head.ok THEN head
         ELSE With(unpack_items(data, head.val.at, length - length \div 2), LAMBDA rest :
                IF rest.ok THEN Unpacked(head.val.v \o rest.val.v, rest.val.at) ELSE rest))

\* MessagePackSerializer._unpack_array
unpack_array(data, offset, length) ==
  With(unpack_items(data, offset, length), LAMBDA r :
    IF r.ok THEN Unpacked(PyList(r.val.v), r.val.at) ELSE r)

\* one round of the loop of _unpack_map: the key, the value, and
\* result[key] = value, which raises when the key is a list or a dict
unpack_member(data, offset) ==
  With(unpack_one(data, offset), LAMBDA key :
    IF ~key.ok THEN key
    ELSE With(unpack_one(data, key.val.at), LAMBDA value :
           IF ~value.ok THEN value
           ELSE IF key.val.v.m \in {"list", "map"} THEN Raised("TypeError")
           ELSE Unpacked(<<[key |-> key.val.v, value |-> value.val.v]>>, value.val.at)))

\* the loop of _unpack_map, read in two halves like the items of a list
unpack_members(data, offset, length) ==
  IF length = 0 THEN Unpacked(<<>>, offset)
  ELSE IF length = 1 THEN unpack_member(data, offset)
  ELSE With(unpack_members(data, offset, length \div 2), LAMBDA head :
         IF ~head.ok THEN head
         ELSE With(unpack_members(data, head.val.at, length - length \div 2), LAMBDA rest :
                IF rest.ok THEN Unpacked(head.val.v \o rest.val.v, rest.val.at) ELSE rest))

\* MessagePackSerializer._unpack_map
unpack_map(data, offset, length) ==
  With(unpack_members(data, offset, length), LAMBDA r :
    IF r.ok THEN Unpacked(PyDict(DictOf(r.val.v)), r.val.at) ELSE r)

\* MessagePackSerializer.unpack: the value, the offset is dropped
unpack(data) ==
  With(unpack_one(data, 0), LAMBDA r : IF r.ok THEN Ok(r.val.v) ELSE r)

(***************************************************************************)
(* State                                                                   *)
(***************************************************************************)

VARIABLES
  cont,    \* the ValueContainer objects, by id
  lock,    \* the RLock of each container: owner thread and hold count
  th,      \* the threads: call stack and locals of the operation in progress
  phase,   \* "setup" until the worker threads are started, then "run"
  wire,    \* the wire text in transit between two containers
  ret,     \* the operation that ran last and what it returned
  made,    \* the construction or lookup that ran last and its outcome
  store    \* the ValueStore object

vars == <<cont, lock, th, phase, wire, ret, made, store>>

ContId == {"c1", "c2"}

Threads == {"t1", "t2"}

\* ValueContainer()
FreshContainer == ValueContainer(<<>>, <<>>, <<>>, <<>>, <<>>, <<>>)

\* threading.RLock(): not owned
FreeLock == [owner |-> "none", depth |-> 0]

\* a thread that is in no operation: its call stack is empty
IdleThread ==
  [stack |-> <<>>, k |-> "c1", update_immediately |-> FALSE, index |-> 0,
   text |-> <<>>, matches |-> <<>>, raised |-> FALSE, calls |-> 0, added |-> 0]

NoReturn == [op |-> "init", text |-> <<>>, flag |-> FALSE, poh |-> FALSE]

NoneMade == [cls |-> "none", via |-> "none", value |-> IntOf(0), res |-> None]

InitRest ==
  /\ lock = [k \in ContId |-> FreeLock]
  /\ th = [t \in Threads |-> IdleThread]
  /\ phase = "setup"
  /\ wire = <<>>
  /\ ret = NoReturn
  /\ made = NoneMade
  /\ store = ValueStore

(***************************************************************************)
(* Spec: one thread calling the mutators and serialize() of container c1   *)
(***************************************************************************)

\* the longest unit list the callers build
MaxUnits == 2

\* the (id, sub_id) pairs the callers pass to set_source and set_target
IdVals == {<<<<"s">>, <<"u">>>>}

\* message types the callers pass
TypeVals == {<<"m">>}

\* the values the callers add in Spec
SmallPool == {IntValue(<<"a">>, IntOf(5)).val, BoolValue(<<"b">>, FALSE).val}

\* all lists of at most n members of S
RECURSIVE ListsUpTo(_, _)
ListsUpTo(S, n) ==
  IF n = 0 THEN {<<>>}
  ELSE LET shorter == ListsUpTo(S, n - 1)
       IN  shorter \cup {Append(l, x) : l \in {m \in shorter : Len(m) = n - 1}, x \in S}

Init ==
  /\ cont = [k \in ContId |-> FreshContainer]
  /\ InitRest

Returned(op, text, flag) == [op |-> op, text |-> text, flag |-> flag, poh |-> FALSE]

\* a mutator of c1 ran as a whole; ret.flag tells whether it ended with
\* _update_data_string (update_immediately)
Mutate(c, update_immediately) ==
  /\ cont' = [cont EXCEPT !["c1"] = c]
  /\ ret' = Returned("mutate", <<>>, update_immediately)
  /\ UNCHANGED <<lock, th, phase, wire, made, store>>

SetSource == \E id \in IdVals : Mutate(set_source(cont["c1"], id[1], id[2]), FALSE)

SetTarget == \E id \in IdVals : Mutate(set_target(cont["c1"], id[1], id[2]), FALSE)

SetMessageType ==
  \E m \in TypeVals : Mutate(set_message_type(cont["c1"], m), FALSE)

SwapHeader == Mutate(swap_header(cont["c1"]), FALSE)

Add ==
  /\ Len(cont["c1"].units) < MaxUnits
  /\ \E v \in SmallPool, u \in BOOLEAN : Mutate(add(cont["c1"], "c1", v, u), u)

SetUnits ==
  \E vs \in ListsUpTo(SmallPool, MaxUnits), u \in BOOLEAN :
    Mutate(set_units(cont["c1"], "c1", vs, u), u)

RemoveName ==
  \E n \in {<<"a">>, <<"b">>}, u \in BOOLEAN :
    Mutate(remove_name(cont["c1"], n, u), u)

RemoveValue ==
  \E i \in 0..Len(cont["c1"].units), u \in BOOLEAN :
    Mutate(remove_value(cont["c1"], i, u), u)

ClearValue == Mutate(clear_value(cont["c1"]), FALSE)

\* serialize() of c1: ret.flag tells whether the cached string was returned
Serialize ==
  /\ cont' = [cont EXCEPT !["c1"] = SerializeState(@)]
  /\ ret' = Returned("serialize", SerializeResult(cont["c1"]), CacheHit(cont["c1"]))
  /\ UNCHANGED <<lock, th, phase, wire, made, store>>

Next ==
  \/ SetSource
  \/ SetTarget
  \/ SetMessageType
  \/ SwapHeader
  \/ Add
  \/ SetUnits
  \/ RemoveName
  \/ RemoveValue
  \/ ClearValue
  \/ Serialize

Spec == Init /\ [][Next]_vars

(***************************************************************************)
(* SpecCodec: container c1 is built by its constructor, serialized, and    *)
(* the text is handed to ValueContainer(data_string=..., parse_only_header) *)
(* which builds c2                                                         *)
(***************************************************************************)

\* the deepest nesting of ContainerValue / ArrayValue the callers build
MaxDepth == 2

\* the longest string payload the callers build from StrAlphabet
MaxStrLen == 3

\* scalar values: both booleans, every integer width at a boundary, empty
\* and non-empty string and byte payloads, and a unit with an empty name
ScalarPool ==
  { BoolValue(<<"a">>, TRUE).val,
    BoolValue(<<"b">>, FALSE).val,
    ShortValue(<<"a">>, IntOf(-32768)).val,
    UShortValue(<<"b">>, IntOf(65535)).val,
    IntValue(<<"a">>, INT32_MIN).val,
    UIntValue(<<"b">>, UINT32_MAX).val,
    LongValue(<<"a">>, INT32_MAX).val,
    ULongValue(<<"b">>, IntOf(0)).val,
    LLongValue(<<"a">>, MkInt(TRUE, <<0, 0, 0, 0, 0, 0, 0, 128>>)).val,
    ULLongValue(<<"b">>, MkInt(FALSE, <<255, 255, 255, 255, 255, 255, 255, 255>>)).val,
    StringValue(<<"a">>, <<"x">>).val,
    StringValue(<<"b">>, <<>>).val,
    BytesValue(<<"a">>, <<0, 255>>).val,
    BytesValue(<<"b">>, <<>>).val,
    IntValue(<<>>, IntOf(7)).val }

LeafX == IntValue(<<"x">>, IntOf(1)).val

LeafY == IntValue(<<"y">>, IntOf(2)).val

UnitB == IntValue(<<"B">>, IntOf(5)).val

\* value trees of depth at most d: a leaf, or a ContainerValue / ArrayValue
\* named A whose children are a tree, or a tree followed by the leaf y
RECURSIVE Trees(_)
Trees(d) ==
  IF d = 0 THEN {LeafX, LeafY}
  ELSE LET sub == Trees(d - 1)
       IN  sub \cup {ContainerValue(<<"A">>, <<t>>).val : t \in sub}
               \cup {ContainerValue(<<"A">>, <<t, LeafY>>).val : t \in sub}
               \cup {ArrayValue(<<"A">>, <<t>>).val : t \in sub}
               \cup {ArrayValue(<<"A">>, <<t, LeafY>>).val : t \in sub}

IsNested(v) == v.type \in {CONTAINER_VALUE, ARRAY_VALUE}

\* unit lists with a nested value, alone or followed by the unit B
NestedLists ==
  LET nested == {t \in Trees(MaxDepth) : IsNested(t)}
  IN  {<<t>> : t \in nested} \cup {<<t, UnitB>> : t \in nested}

StrAlphabet == {"a", "]", ";", "\\"}

\* unit lists with a StringValue s over StrAlphabet followed by the unit B
StringLists ==
  {<<StringValue(<<"s">>, text).val, UnitB>> : text \in ListsUpTo(StrAlphabet, MaxStrLen)}

\* unit lists with a scalar value, alone or next to the unit B
ScalarLists ==
  {<<v>> : v \in ScalarPool} \cup {<<v, UnitB>> : v \in ScalarPool}
                             \cup {<<UnitB, v>> : v \in ScalarPool}

\* header field values given to the constructor
HeaderVals == {<<>>, <<"s">>, <<"a", "]", "b">>}

\* sub-identifier values given to the constructor
SubVals == {<<>>, <<"u">>}

InitCodec ==
  /\ \/ \E units \in {<<>>} \cup ScalarLists \cup NestedLists \cup StringLists :
          cont = [k \in ContId |->
                    IF k = "c1" THEN ValueContainer(<<>>, <<>>, <<>>, <<>>, <<>>, units)
                    ELSE FreshContainer]
     \/ \E sid \in HeaderVals, ssub \in SubVals, tid \in HeaderVals,
           tsub \in SubVals, mt \in HeaderVals :
          cont = [k \in ContId |->
                    IF k = "c1" THEN ValueContainer(sid, ssub, tid, tsub, mt, <<UnitB>>)
                    ELSE FreshContainer]
  /\ InitRest

\* c1.serialize() puts its result on the wire
Send ==
  /\ cont' = [cont EXCEPT !["c1"] = SerializeState(@)]
  /\ wire' = SerializeResult(cont["c1"])
  /\ ret' = Returned("serialize", SerializeResult(cont["c1"]), CacheHit(cont["c1"]))
  /\ UNCHANGED <<lock, th, phase, made, store>>

\* c2 = ValueContainer(data_string=wire, parse_only_header=poh): ret.flag is
\* what deserialize returned
Restore ==
  /\ wire # <<>>
  /\ \E poh \in BOOLEAN :
       LET r == deserialize(FreshContainer, "c2", wire, poh)
       IN  /\ cont' = [cont EXCEPT !["c2"] = r.c]
           /\ ret' = [op |-> "deserialize", text |-> wire, flag |-> r.ret, poh |-> poh]
  /\ UNCHANGED <<lock, th, phase, wire, made, store>>

NextCodec ==
  \/ Send
  \/ Restore

SpecCodec == InitCodec /\ [][NextCodec]_vars

\* the six header fields of a container
HeaderOf(c) ==
  <<c.source_id, c.source_sub_id, c.target_id, c.target_sub_id, c.message_type, c.version>>

\* a value tree by name, type code and decoded value, children in order
RECURSIVE ViewOf(_)
ViewOf(v) ==
  CASE v.type = CONTAINER_VALUE ->
         [name |-> v.name, type |-> v.type, value |-> v.value,
          children |-> [j \in 1..Len(v.units) |-> ViewOf(v.units[j])]]
    [] v.type = ARRAY_VALUE ->
         [name |-> v.name, type |-> v.type, value |-> v.value,
          children |-> [j \in 1..Len(v.values) |-> ViewOf(v.values[j])]]
    [] OTHER ->
         [name |-> v.name, type |-> v.type, value |-> v.value, children |-> <<>>]

ViewOfUnits(c) == [j \in 1..Len(c.units) |-> ViewOf(c.units[j])]

\* c2 was just built in full from the text c1 serializes to
RestoredInFull ==
  /\ ret.op = "deserialize"
  /\ ~ret.poh
  /\ ret.text = SerializeText(cont["c1"])

(***************************************************************************)
(* SpecMalformed: wire text written by a peer reaches the receiver whole   *)
(* or cut short, and is handed to deserialize                              *)
(***************************************************************************)

\* the data tuples of well-formed peer messages: scalar values, and a
\* CONTAINER tuple that declares its two children
GoodTuples ==
  { Fragment(<<"a">>, INT_VALUE, <<"5">>) \o Fragment(<<"b">>, BOOL_VALUE, <<"t", "r", "u", "e">>),
    Fragment(<<"A">>, CONTAINER_VALUE, <<"2">>) \o Fragment(<<"x">>, INT_VALUE, <<"1">>)
      \o Fragment(<<"y">>, INT_VALUE, <<"2">>) \o Fragment(<<"B">>, INT_VALUE, <<"5">>) }

\* a CONTAINER tuple that declares more children than tuples follow
OverDeclaredTuples ==
  { Fragment(<<"A">>, CONTAINER_VALUE, <<"3">>) \o Fragment(<<"x">>, INT_VALUE, <<"1">>) }

\* a tuple whose value cannot be parsed for its type
BadValueTuples ==
  { Fragment(<<"a">>, INT_VALUE, <<"5">>) \o Fragment(<<"b">>, INT_VALUE, <<"x">>) }

GoodTexts == {HeaderText(FreshContainer) \o DataText(t) : t \in GoodTuples}

OverDeclaredTexts == {HeaderText(FreshContainer) \o DataText(t) : t \in OverDeclaredTuples}

BadValueTexts == {HeaderText(FreshContainer) \o DataText(t) : t \in BadValueTuples}

\* messages without the header block
HeaderlessTexts == {DataText(t) : t \in GoodTuples}

InitMalformed ==
  /\ cont = [k \in ContId |-> FreshContainer]
  /\ lock = [k \in ContId |-> FreeLock]
  /\ th = [t \in Threads |-> IdleThread]
  /\ phase = "setup"
  /\ wire \in GoodTexts \cup OverDeclaredTexts \cup BadValueTexts \cup HeaderlessTexts
  /\ ret = NoReturn
  /\ made = NoneMade
  /\ store = ValueStore

\* the text is cut short before the receiver reads it
Truncate ==
  /\ ret.op = "init"
  /\ \E n \in 1..(Len(wire) - 1) : wire' = SubSeq(wire, 1, n)
  /\ UNCHANGED <<cont, lock, th, phase, ret, made, store>>

NextMalformed ==
  \/ Truncate
  \/ Restore

SpecMalformed == InitMalformed /\ [][NextMalformed]_vars

(***************************************************************************)
(* SpecLong: LongValue and ULongValue built by the constructor, by         *)
(* from_string and by from_data                                            *)
(***************************************************************************)

\* magnitudes at and around the 32-bit and 64-bit boundaries
EdgeMags ==
  { <<>>, <<1>>, <<100>>,
    <<254, 255, 255, 127>>, <<255, 255, 255, 127>>, <<0, 0, 0, 128>>, <<1, 0, 0, 128>>,
    <<255, 255, 255, 255>>, <<0, 0, 0, 0, 1>>, <<0, 0, 0, 0, 0, 0, 0, 128>> }

EdgeInts == {MkInt(n, m) : n \in BOOLEAN, m \in EdgeMags}

\* the spellings of an int that int() accepts: str(v), blanks around it,
\* leading zeros, an explicit plus sign
Spellings(v) ==
  { IntToStr(v),
    <<" ">> \o IntToStr(v) \o <<" ">>,
    (IF v.neg THEN <<"-">> ELSE <<"+">>) \o <<"0", "0">> \o IntToStr(MkInt(FALSE, v.mag)) }

EdgeBytes == {0, 1, 127, 128, 255}

EdgeData == [1..4 -> EdgeBytes]

InitLong == cont = [k \in ContId |-> FreshContainer] /\ InitRest

Made(cls, via, value, res) == [cls |-> cls, via |-> via, value |-> value, res |-> res]

MakeLong ==
  /\ made = NoneMade
  /\ \E v \in EdgeInts :
       made' = Made("LongValue", "init", v, LongValue(<<"n">>, v))
  /\ UNCHANGED <<cont, lock, th, phase, wire, ret, store>>

ParseLong ==
  /\ made = NoneMade
  /\ \E v \in EdgeInts : \E s \in Spellings(v) :
       made' = Made("LongValue", "from_string", v, IntFromString(<<"n">>, LONG_VALUE, s))
  /\ UNCHANGED <<cont, lock, th, phase, wire, ret, store>>

UnpackLong ==
  /\ made = NoneMade
  /\ \E d \in EdgeData :
       made' = Made("LongValue", "from_data", StructUnpack(d, 4, TRUE).val, LongValue_from_data(<<"n">>, d))
  /\ UNCHANGED <<cont, lock, th, phase, wire, ret, store>>

MakeULong ==
  /\ made = NoneMade
  /\ \E v \in EdgeInts :
       made' = Made("ULongValue", "init", v, ULongValue(<<"n">>, v))
  /\ UNCHANGED <<cont, lock, th, phase, wire, ret, store>>

ParseULong ==
  /\ made = NoneMade
  /\ \E v \in EdgeInts : \E s \in Spellings(v) :
       made' = Made("ULongValue", "from_string", v, IntFromString(<<"n">>, ULONG_VALUE, s))
  /\ UNCHANGED <<cont, lock, th, phase, wire, ret, store>>

UnpackULong ==
  /\ made = NoneMade
  /\ \E d \in EdgeData :
       made' = Made("ULongValue", "from_data", StructUnpack(d, 4, FALSE).val, ULongValue_from_data(<<"n">>, d))
  /\ UNCHANGED <<cont, lock, th, phase, wire, ret, store>>

\* v = cls(name, value); cls.from_data(name, v._data): the payload of a
\* value that was built is handed back to from_data of its class
ReloadLong ==
  /\ made.cls = "LongValue" /\ made.via # "reload" /\ made.res.ok
  /\ made' = Made("LongValue", "reload", made.value,
                  LongValue_from_data(made.res.val.name, made.res.val.data))
  /\ UNCHANGED <<cont, lock, th, phase, wire, ret, store>>

ReloadULong ==
  /\ made.cls = "ULongValue" /\ made.via # "reload" /\ made.res.ok
  /\ made' = Made("ULongValue", "reload", made.value,
                  ULongValue_from_data(made.res.val.name, made.res.val.data))
  /\ UNCHANGED <<cont, lock, th, phase, wire, ret, store>>

\* the object, or the exception, is dropped
Discard ==
  /\ made # NoneMade
  /\ made' = NoneMade
  /\ UNCHANGED <<cont, lock, th, phase, wire, ret, store>>

NextLong ==
  \/ MakeLong
  \/ ParseLong
  \/ UnpackLong
  \/ MakeULong
  \/ ParseULong
  \/ UnpackULong
  \/ ReloadLong
  \/ ReloadULong
  \/ Discard

SpecLong == InitLong /\ [][NextLong]_vars

(***************************************************************************)
(* SpecThreads, SpecThreadsFair, SpecDefault: worker threads calling the   *)
(* public operations of the containers.  A thread runs one operation at a  *)
(* time; an operation is a stack of frames, one per method entered through *)
(* a with statement, and the threads interleave between the steps.         *)
(*                                                                         *)
(* serialize() and add() are taken statement by statement.  The bodies of  *)
(* set_units, remove, clear_value and the header setters are taken in one  *)
(* step each: SpecDefault, where no lock is held, does not call them.      *)
(* The statistics counters are left out.                                   *)
(***************************************************************************)

MaxCalls == 2

\* _get_read_lock: the RLock when thread safety is enabled, else a _DummyLock
get_read_lock(c) == IF c.thread_safe_enabled THEN "RLock" ELSE "_DummyLock"

\* _get_write_lock that hands out a _DummyLock whatever the setting
get_write_lock_dummy(c) == "_DummyLock"

\* _get_write_lock
get_write_lock(c) == IF c.thread_safe_enabled THEN "RLock" ELSE "_DummyLock"

\* a lock that blocks its owner too (threading.Lock)
CanAcquire_plain(l, t) == l.owner = "none"

\* RLock.acquire: blocks while another thread owns the lock
CanAcquire(l, t) == l.owner \in {"none", t}

Acquire(l, t) == [owner |-> t, depth |-> l.depth + 1]

\* RLock.release: the owner lets go when the last hold is released
Release(l) == IF l.depth <= 1 THEN FreeLock ELSE [l EXCEPT !.depth = @ - 1]

WriteFns ==
  {"add", "set_units", "remove", "clear_value",
   "set_source", "set_target", "set_message_type", "swap_header"}

ReadFns == {"serialize", "value_array", "get_value"}

\* the methods that take update_immediately
UpdatingFns == {"add", "set_units", "remove"}

\* the value a thread adds, and the name the threads look up and remove
ValueOf(t) ==
  IF t = "t1" THEN IntValue(<<"a">>, IntOf(1)).val ELSE IntValue(<<"b">>, IntOf(2)).val

TargetName == <<"a">>

Top(t) == th[t].stack[Len(th[t].stack)]

\* the thread is at statement pc of method fn
At(t, fn, pc) == th[t].stack # <<>> /\ Top(t).fn = fn /\ Top(t).pc = pc

Goto(stack, pc) == [stack EXCEPT ![Len(stack)].pc = pc]

\* a call: the callee starts at its with statement
Push(stack, fn) == Append(stack, [fn |-> fn, pc |-> "enter", lk |-> "none"])

\* where a mutator goes after its body
AfterBody(t) == IF th[t].update_immediately THEN "update" ELSE "exit"

InitThreads == cont = [k \in ContId |-> FreshContainer] /\ InitRest

\* container.enable_thread_safety(True), before the threads are started
EnableThreadSafety(k) ==
  /\ phase = "setup"
  /\ ~cont[k].thread_safe_enabled
  /\ cont' = [cont EXCEPT ![k] = enable_thread_safety(@, TRUE)]
  /\ UNCHANGED <<lock, th, phase, wire, ret, made, store>>

\* the threads are started, every container being thread safe
StartSafe ==
  /\ phase = "setup"
  /\ \A k \in ContId : cont[k].thread_safe_enabled
  /\ phase' = "run"
  /\ UNCHANGED <<cont, lock, th, wire, ret, made, store>>

\* the threads are started with the default settings
Start ==
  /\ phase = "setup"
  /\ phase' = "run"
  /\ UNCHANGED <<cont, lock, th, wire, ret, made, store>>

\* the thread after it called fn on container k
Called(thr, k, fn, update_immediately, index) ==
  [thr EXCEPT !.stack = Push(<<>>, fn), !.k = k,
              !.update_immediately = update_immediately, !.index = index,
              !.raised = FALSE, !.calls = @ + 1]

\* the calls the threads make: <<k, fn, update_immediately, index>>
\* mutators, header setters and serialize on one container
OnOneContainer ==
  { <<"c1", "add", FALSE, 0>>, <<"c1", "add", TRUE, 0>>,
    <<"c1", "remove", FALSE, 0>>, <<"c1", "clear_value", FALSE, 0>>,
    <<"c1", "set_source", FALSE, 0>>, <<"c1", "set_target", FALSE, 0>>,
    <<"c1", "set_message_type", FALSE, 0>>, <<"c1", "swap_header", FALSE, 0>>,
    <<"c1", "serialize", FALSE, 0>> }

\* the operations that enter a second with block; get_value with index -1
\* returns the last match, and raises when nothing matches
NestingOn(k) == { <<k, "add", TRUE, 0>>, <<k, "get_value", FALSE, -1>> }

\* t1 works on c1, t2 on either container
Nesting(t) ==
  IF t = "t1"
  THEN NestingOn("c1") \cup { <<"c1", "set_units", TRUE, 0>>, <<"c1", "remove", TRUE, 0>> }
  ELSE NestingOn("c1") \cup NestingOn("c2")

\* a thread calls a mutator, a header setter or serialize
Call(t) ==
  /\ phase = "run"
  /\ th[t].stack = <<>>
  /\ th[t].calls < MaxCalls
  /\ \E call \in OnOneContainer :
       th' = [th EXCEPT ![t] = Called(@, call[1], call[2], call[3], call[4])]
  /\ UNCHANGED <<cont, lock, phase, wire, ret, made, store>>

\* a thread calls an operation that calls another one
CallNesting(t) ==
  /\ phase = "run"
  /\ th[t].stack = <<>>
  /\ th[t].calls < MaxCalls
  /\ \E call \in Nesting(t) :
       th' = [th EXCEPT ![t] = Called(@, call[1], call[2], call[3], call[4])]
  /\ UNCHANGED <<cont, lock, phase, wire, ret, made, store>>

\* a thread of test_concurrent_add: container.add(value), or serialize();
\* added counts the add calls the thread has made
CallAsTest(t) ==
  /\ phase = "run"
  /\ th[t].stack = <<>>
  /\ th[t].calls < MaxCalls
  /\ \E fn \in {"add", "serialize"} :
       th' = [th EXCEPT ![t] = [Called(@, "c1", fn, FALSE, 0) EXCEPT
                                  !.added = IF fn = "add" THEN @ + 1 ELSE @]]
  /\ UNCHANGED <<cont, lock, phase, wire, ret, made, store>>

\* the lock object the with statement of the current method asks for
LockFor(t) ==
  IF Top(t).fn \in WriteFns THEN get_write_lock(cont[th[t].k])
  ELSE get_read_lock(cont[th[t].k])

\* with self._get_write_lock(): / with self._get_read_lock():  __enter__
Enter(t) ==
  /\ th[t].stack # <<>>
  /\ Top(t).pc = "enter"
  /\ IF LockFor(t) = "RLock"
     THEN /\ CanAcquire(lock[th[t].k], t)
          /\ lock' = [lock EXCEPT ![th[t].k] = Acquire(@, t)]
     ELSE UNCHANGED lock
  /\ th' = [th EXCEPT ![t].stack = [@ EXCEPT ![Len(@)].pc = "body",
                                             ![Len(@)].lk = LockFor(t)]]
  /\ UNCHANGED <<cont, phase, wire, ret, made, store>>

\* __exit__ of the with statement, on return and on an exception alike, and
\* the return to the caller
Exit(t) ==
  /\ th[t].stack # <<>>
  /\ Top(t).pc = "exit"
  /\ lock' = IF Top(t).lk = "RLock" THEN [lock EXCEPT ![th[t].k] = Release(@)] ELSE lock
  /\ th' = [th EXCEPT ![t] =
              IF Len(@.stack) = 1
              THEN [@ EXCEPT !.stack = <<>>, !.k = "c1", !.update_immediately = FALSE,
                             !.index = 0, !.text = <<>>, !.matches = <<>>]
              ELSE [@ EXCEPT !.stack = SubSeq(@, 1, Len(@) - 1)]]
  /\ UNCHANGED <<cont, phase, wire, ret, made, store>>

\* add: self._units.append(target_value); target_value.set_parent(self)
AddAppend(t) ==
  /\ At(t, "add", "body")
  /\ cont' = [cont EXCEPT ![th[t].k].units = Append(@, set_parent(ValueOf(t), th[t].k))]
  /\ th' = [th EXCEPT ![t].stack = Goto(@, "mark")]
  /\ UNCHANGED <<lock, phase, wire, ret, made, store>>

\* add: self._changed_data = True
AddMark(t) ==
  /\ At(t, "add", "mark")
  /\ cont' = [cont EXCEPT ![th[t].k].changed_data = TRUE]
  /\ th' = [th EXCEPT ![t].stack = Goto(@, AfterBody(t))]
  /\ UNCHANGED <<lock, phase, wire, ret, made, store>>

SetUnitsBody(t) ==
  /\ At(t, "set_units", "body")
  /\ cont' = [cont EXCEPT ![th[t].k] = set_units(@, th[t].k, <<ValueOf(t)>>, FALSE)]
  /\ th' = [th EXCEPT ![t].stack = Goto(@, AfterBody(t))]
  /\ UNCHANGED <<lock, phase, wire, ret, made, store>>

RemoveBody(t) ==
  /\ At(t, "remove", "body")
  /\ cont' = [cont EXCEPT ![th[t].k] = remove_name(@, TargetName, FALSE)]
  /\ th' = [th EXCEPT ![t].stack = Goto(@, AfterBody(t))]
  /\ UNCHANGED <<lock, phase, wire, ret, made, store>>

ClearValueBody(t) ==
  /\ At(t, "clear_value", "body")
  /\ cont' = [cont EXCEPT ![th[t].k] = clear_value(@)]
  /\ th' = [th EXCEPT ![t].stack = Goto(@, "exit")]
  /\ UNCHANGED <<lock, phase, wire, ret, made, store>>

\* set_source, set_target, set_message_type, swap_header
SetHeaderBody(t) ==
  /\ th[t].stack # <<>>
  /\ Top(t).pc = "body"
  /\ Top(t).fn \in {"set_source", "set_target", "set_message_type", "swap_header"}
  /\ cont' = [cont EXCEPT ![th[t].k] =
                CASE Top(t).fn = "set_source" -> set_source(@, <<"s">>, <<>>)
                  [] Top(t).fn = "set_target" -> set_target(@, <<"s">>, <<>>)
                  [] Top(t).fn = "set_message_type" -> set_message_type(@, <<"m">>)
                  [] Top(t).fn = "swap_header" -> swap_header(@)]
  /\ th' = [th EXCEPT ![t].stack = Goto(@, "exit")]
  /\ UNCHANGED <<lock, phase, wire, ret, made, store>>

\* _update_data_string: the call of self.serialize()
UpdateCall(t) ==
  /\ th[t].stack # <<>>
  /\ Top(t).pc = "update"
  /\ th' = [th EXCEPT ![t].stack = Push(Goto(@, "store"), "serialize")]
  /\ UNCHANGED <<cont, lock, phase, wire, ret, made, store>>

\* _update_data_string: self._data_string = <what serialize returned>
UpdateStore(t) ==
  /\ th[t].stack # <<>>
  /\ Top(t).pc = "store"
  /\ cont' = [cont EXCEPT ![th[t].k].data_string = th[t].text]
  /\ th' = [th EXCEPT ![t].stack = Goto(@, "clean"), ![t].text = <<>>]
  /\ UNCHANGED <<lock, phase, wire, ret, made, store>>

\* _update_data_string: self._changed_data = False
UpdateClean(t) ==
  /\ th[t].stack # <<>>
  /\ Top(t).pc = "clean"
  /\ cont' = [cont EXCEPT ![th[t].k].changed_data = FALSE]
  /\ th' = [th EXCEPT ![t].stack = Goto(@, "exit")]
  /\ UNCHANGED <<lock, phase, wire, ret, made, store>>

\* serialize: the cache check, and the return of the cached string
SerializeCheck(t) ==
  /\ At(t, "serialize", "body")
  /\ th' = [th EXCEPT ![t] =
              IF CacheHit(cont[th[t].k])
              THEN [@ EXCEPT !.stack = Goto(@, "exit"), !.text = cont[th[t].k].data_string]
              ELSE [@ EXCEPT !.stack = Goto(@, "build")]]
  /\ UNCHANGED <<cont, lock, phase, wire, ret, made, store>>

\* serialize: result = header + data
SerializeBuild(t) ==
  /\ At(t, "serialize", "build")
  /\ th' = [th EXCEPT ![t].stack = Goto(@, "assign"), ![t].text = SerializeText(cont[th[t].k])]
  /\ UNCHANGED <<cont, lock, phase, wire, ret, made, store>>

\* serialize: self._data_string = result
SerializeAssign(t) ==
  /\ At(t, "serialize", "assign")
  /\ cont' = [cont EXCEPT ![th[t].k].data_string = th[t].text]
  /\ th' = [th EXCEPT ![t].stack = Goto(@, "clear")]
  /\ UNCHANGED <<lock, phase, wire, ret, made, store>>

\* serialize: self._changed_data = False; return result
SerializeClear(t) ==
  /\ At(t, "serialize", "clear")
  /\ cont' = [cont EXCEPT ![th[t].k].changed_data = FALSE]
  /\ th' = [th EXCEPT ![t].stack = Goto(@, "exit")]
  /\ UNCHANGED <<lock, phase, wire, ret, made, store>>

\* get_value: matches = self.value_array(target_name)
GetValueCall(t) ==
  /\ At(t, "get_value", "body")
  /\ th' = [th EXCEPT ![t].stack = Push(Goto(@, "index"), "value_array")]
  /\ UNCHANGED <<cont, lock, phase, wire, ret, made, store>>

\* value_array: [v for v in self._units if v.name == target_name]
ValueArrayBody(t) ==
  /\ At(t, "value_array", "body")
  /\ th' = [th EXCEPT ![t].stack = Goto(@, "exit"),
                      ![t].matches = SelectSeq(cont[th[t].k].units,
                                               LAMBDA v : v.name = TargetName)]
  /\ UNCHANGED <<cont, lock, phase, wire, ret, made, store>>

\* get_value: matches[index] if index < len(matches) else None; a negative
\* index counts from the end and raises IndexError past the start
GetValueIndex(t) ==
  /\ At(t, "get_value", "index")
  /\ th' = [th EXCEPT ![t].stack = Goto(@, "exit"),
                      ![t].matches = <<>>,
                      ![t].raised = /\ th[t].index < Len(th[t].matches)
                                    /\ th[t].index < 0 - Len(th[t].matches)]
  /\ UNCHANGED <<cont, lock, phase, wire, ret, made, store>>

\* the steps of a thread inside a mutator, a header setter or serialize
Run(t) ==
  \/ Enter(t)
  \/ AddAppend(t)
  \/ AddMark(t)
  \/ RemoveBody(t)
  \/ ClearValueBody(t)
  \/ SetHeaderBody(t)
  \/ UpdateCall(t)
  \/ UpdateStore(t)
  \/ UpdateClean(t)
  \/ SerializeCheck(t)
  \/ SerializeBuild(t)
  \/ SerializeAssign(t)
  \/ SerializeClear(t)
  \/ Exit(t)

NextThreads ==
  \/ \E k \in ContId : EnableThreadSafety(k)
  \/ StartSafe
  \/ \E t \in Threads : Call(t) \/ Run(t)

SpecThreads == InitThreads /\ [][NextThreads]_vars

\* the steps of a thread inside an operation that calls another one
RunNesting(t) ==
  \/ Enter(t)
  \/ AddAppend(t)
  \/ AddMark(t)
  \/ SetUnitsBody(t)
  \/ RemoveBody(t)
  \/ UpdateCall(t)
  \/ UpdateStore(t)
  \/ UpdateClean(t)
  \/ SerializeCheck(t)
  \/ SerializeBuild(t)
  \/ SerializeAssign(t)
  \/ SerializeClear(t)
  \/ GetValueCall(t)
  \/ ValueArrayBody(t)
  \/ GetValueIndex(t)
  \/ Exit(t)

NextNesting ==
  \/ \E k \in ContId : EnableThreadSafety(k)
  \/ StartSafe
  \/ \E t \in Threads : CallNesting(t) \/ RunNesting(t)

\* every thread that can take a step is scheduled again
SpecThreadsFair ==
  InitThreads /\ [][NextNesting]_vars /\ \A t \in Threads : WF_vars(RunNesting(t))

NextDefault ==
  \/ Start
  \/ \E t \in Threads :
       \/ CallAsTest(t)
       \/ Enter(t)
       \/ AddAppend(t)
       \/ AddMark(t)
       \/ SerializeCheck(t)
       \/ SerializeBuild(t)
       \/ SerializeAssign(t)
       \/ SerializeClear(t)
       \/ Exit(t)

SpecDefault == InitThreads /\ [][NextDefault]_vars

(***************************************************************************)
(* SpecTypes: the type registry.  A caller looks a text up with            *)
(* get_type_from_string or a type with get_string_from_type, and may hand  *)
(* the result to the other function.  wire holds the text looked up,       *)
(* made.value the type, made.res what the last call returned.              *)
(***************************************************************************)
MaxCodeLen == 3

CodeAlphabet == {"0", "1", "5", "6", " ", "-"}

\* the texts a caller looks up: every text over CodeAlphabet up to
\* MaxCodeLen characters, and the sixteen codes
CodeTexts == ListsUpTo(CodeAlphabet, MaxCodeLen) \cup {TYPE_MAP[t + 1] : t \in 0..15}

InitTypes == cont = [k \in ContId |-> FreshContainer] /\ InitRest

LookupType ==
  /\ made = NoneMade
  /\ \E s \in CodeTexts :
       /\ wire' = s
       /\ made' = Made("ValueTypes", "get_type_from_string", IntOf(0), Ok(get_type_from_string(s)))
  /\ UNCHANGED <<cont, lock, th, phase, ret, store>>

LookupString ==
  /\ made = NoneMade
  /\ \E t \in 0..15 :
       made' = Made("ValueTypes", "get_string_from_type", IntOf(t), Ok(get_string_from_type(t)))
  /\ UNCHANGED <<cont, lock, th, phase, wire, ret, store>>

\* get_string_from_type(get_type_from_string(c))
StringOfLookedUpType ==
  /\ made.via = "get_type_from_string"
  /\ made' = Made("ValueTypes", "string_of_type", IntOf(made.res.val),
                  Ok(get_string_from_type(made.res.val)))
  /\ UNCHANGED <<cont, lock, th, phase, wire, ret, store>>

\* get_type_from_string(get_string_from_type(t))
TypeOfLookedUpString ==
  /\ made.via = "get_string_from_type"
  /\ made' = Made("ValueTypes", "type_of_string", made.value,
                  Ok(get_type_from_string(made.res.val)))
  /\ UNCHANGED <<cont, lock, th, phase, wire, ret, store>>

ForgetType ==
  /\ made.cls = "ValueTypes"
  /\ made' = NoneMade
  /\ wire' = <<>>
  /\ UNCHANGED <<cont, lock, th, phase, ret, store>>

NextTypes ==
  \/ LookupType
  \/ LookupString
  \/ StringOfLookedUpType
  \/ TypeOfLookedUpString
  \/ ForgetType

SpecTypes == InitTypes /\ [][NextTypes]_vars

(***************************************************************************)
(* SpecStore: one ValueStore.  A caller adds, gets and removes values,     *)
(* clears the store, asks its size, resets the statistics, serializes the  *)
(* store to bytes (wire), cuts bytes off the end of the buffer or changes  *)
(* its version byte, and hands the buffer to deserialize_binary.  ret      *)
(* names the call that ran last, its key and the bool it returned; made    *)
(* holds the object it returned or took.                                   *)
(***************************************************************************)
MaxStoreOps == 3

StoreKeys == {<<"a">>, <<"b">>}

\* the values stored under a key: between the two keys, a bool of each
\* truth, an integer of every width, and an empty and a non-empty string
\* and byte string
StorePool(key) ==
  IF key = <<"a">>
  THEN {BoolValue(key, FALSE).val, ShortValue(key, IntOf(-1)).val, IntValue(key, IntOf(0)).val,
        LongValue(key, INT32_MIN).val, LLongValue(key, IntOf(-2)).val,
        StringValue(key, <<>>).val, BytesValue(key, <<0>>).val}
  ELSE {BoolValue(key, TRUE).val, UShortValue(key, IntOf(65535)).val, UIntValue(key, IntOf(1)).val,
        ULongValue(key, UINT32_MAX).val,
        ULLongValue(key, MkInt(FALSE, <<255, 255, 255, 255, 255, 255, 255, 255>>)).val,
        StringValue(key, <<"x">>).val, BytesValue(key, <<>>).val}

\* the statistics counters are kept below MaxStoreOps calls in all
Counted(s) == s.read_count + s.write_count + s.serialization_count

StoreRet(op, key, flag) == [op |-> op, text |-> key, flag |-> flag, poh |-> FALSE]

InitStore == cont = [k \in ContId |-> FreshContainer] /\ InitRest

StoreAdd ==
  /\ wire = <<>> /\ Counted(store) < MaxStoreOps
  /\ \E key \in StoreKeys : \E value \in StorePool(key) :
       /\ store' = ValueStore_add(store, key, value)
       /\ ret' = StoreRet("add", key, FALSE)
       /\ made' = Made("ValueStore", "add", IntOf(0), Ok(value))
  /\ UNCHANGED <<cont, lock, th, phase, wire>>

StoreGet ==
  /\ wire = <<>> /\ Counted(store) < MaxStoreOps
  /\ \E key \in StoreKeys :
       /\ store' = ValueStore_get(store, key).s
       /\ ret' = StoreRet("get", key, FALSE)
       /\ made' = Made("ValueStore", "get", IntOf(0), ValueStore_get(store, key).ret)
  /\ UNCHANGED <<cont, lock, th, phase, wire>>

StoreRemove ==
  /\ wire = <<>>
  /\ \E key \in StoreKeys :
       /\ store' = ValueStore_remove(store, key).s
       /\ ret' = StoreRet("remove", key, ValueStore_remove(store, key).ret)
  /\ made' = NoneMade
  /\ UNCHANGED <<cont, lock, th, phase, wire>>

StoreClear ==
  /\ wire = <<>>
  /\ store' = ValueStore_clear(store)
  /\ ret' = StoreRet("clear", <<>>, FALSE)
  /\ made' = NoneMade
  /\ UNCHANGED <<cont, lock, th, phase, wire>>

StoreSize ==
  /\ wire = <<>>
  /\ ret' = StoreRet("size", <<>>, FALSE)
  /\ made' = Made("ValueStore", "size", IntOf(ValueStore_size(store)), None)
  /\ UNCHANGED <<cont, lock, th, phase, wire, store>>

\* ValueStore.reset_statistics
StoreResetStatistics ==
  /\ wire = <<>> /\ Counted(store) > 0
  /\ store' = [store EXCEPT !.read_count = 0, !.write_count = 0, !.serialization_count = 0]
  /\ ret' = StoreRet("reset_statistics", <<>>, FALSE)
  /\ made' = NoneMade
  /\ UNCHANGED <<cont, lock, th, phase, wire>>

StoreSerializeBinary ==
  /\ wire = <<>> /\ Counted(store) < MaxStoreOps
  /\ store' = serialize_binary(store).s
  /\ wire' = serialize_binary(store).ret.val
  /\ ret' = StoreRet("serialize_binary", <<>>, FALSE)
  /\ made' = NoneMade
  /\ UNCHANGED <<cont, lock, th, phase>>

\* b[:-k] for 0 < k <= len(b)
StoreTruncate ==
  /\ ret.op = "serialize_binary"
  /\ \E k \in 1..Len(wire) : wire' = SubSeq(wire, 1, Len(wire) - k)
  /\ ret' = StoreRet("truncate", <<>>, FALSE)
  /\ UNCHANGED <<cont, lock, th, phase, made, store>>

\* the first byte of the buffer is replaced by another version number
StoreChangeVersion ==
  /\ ret.op = "serialize_binary"
  /\ \E version \in {0, 2, 255} : wire' = [wire EXCEPT ![1] = version]
  /\ ret' = StoreRet("version", <<>>, FALSE)
  /\ UNCHANGED <<cont, lock, th, phase, made, store>>

\* ValueStore.deserialize_binary(wire); ret.flag tells whether the buffer is
\* the one serialize_binary returned
StoreDeserializeBinary ==
  /\ ret.op \in {"serialize_binary", "truncate", "version"}
  /\ ret' = StoreRet("deserialize_binary", <<>>, ret.op = "serialize_binary")
  /\ made' = Made("ValueStore", "deserialize_binary", IntOf(0), deserialize_binary(wire))
  /\ UNCHANGED <<cont, lock, th, phase, wire, store>>

\* the caller is done with the buffer and the store read from it
StoreDropBuffer ==
  /\ ret.op = "deserialize_binary"
  /\ wire' = <<>>
  /\ ret' = NoReturn
  /\ made' = NoneMade
  /\ UNCHANGED <<cont, lock, th, phase, store>>

NextStore ==
  \/ StoreAdd
  \/ StoreGet
  \/ StoreRemove
  \/ StoreClear
  \/ StoreSize
  \/ StoreResetStatistics
  \/ StoreSerializeBinary
  \/ StoreTruncate
  \/ StoreChangeVersion
  \/ StoreDeserializeBinary
  \/ StoreDropBuffer

SpecStore == InitStore /\ [][NextStore]_vars

(***************************************************************************)
(* SpecLookup: lookup by name.  A caller adds units to c1, several of them *)
(* under one name, and asks for them with get_value (with and without an   *)
(* index) and value_array.  ret names the call and the name asked for,     *)
(* made.value the index and made.res what was returned.                    *)
(***************************************************************************)
MaxMatches == 3

\* units that share names: three named a, one named b
LookupPool ==
  {IntValue(<<"a">>, IntOf(1)).val, IntValue(<<"a">>, IntOf(2)).val,
   StringValue(<<"a">>, <<"x">>).val, IntValue(<<"b">>, IntOf(1)).val}

\* the names asked for; nothing is ever named c
LookupNames == {<<"a">>, <<"b">>, <<"c">>}

\* the indexes asked for
LookupIndexes == (0 - 2)..MaxMatches

LookupAdd ==
  /\ Len(cont["c1"].units) < MaxMatches
  /\ \E v \in LookupPool : cont' = [cont EXCEPT !["c1"] = add(@, "c1", v, FALSE)]
  /\ ret' = Returned("add", <<>>, FALSE)
  /\ made' = NoneMade
  /\ UNCHANGED <<lock, th, phase, wire, store>>

LookupClear ==
  /\ cont["c1"].units # <<>>
  /\ cont' = [cont EXCEPT !["c1"] = clear_value(@)]
  /\ ret' = Returned("clear_value", <<>>, FALSE)
  /\ made' = NoneMade
  /\ UNCHANGED <<lock, th, phase, wire, store>>

\* get_value(name, index)
GetValue ==
  /\ \E name \in LookupNames, index \in LookupIndexes :
       /\ ret' = Returned("get_value", name, FALSE)
       /\ made' = Made("ValueContainer", "get_value", IntOf(index),
                       get_value(cont["c1"], name, index))
  /\ UNCHANGED <<cont, lock, th, phase, wire, store>>

\* get_value(name): the index is omitted and defaults to 0
GetFirstValue ==
  /\ \E name \in LookupNames :
       /\ ret' = Returned("get_value", name, TRUE)
       /\ made' = Made("ValueContainer", "get_value", IntOf(0),
                       get_value(cont["c1"], name, 0))
  /\ UNCHANGED <<cont, lock, th, phase, wire, store>>

\* value_array(name)
ValueArray ==
  /\ \E name \in LookupNames :
       /\ ret' = Returned("value_array", name, FALSE)
       /\ made' = Made("ValueContainer", "value_array", IntOf(0),
                       Ok(value_array(cont["c1"], name)))
  /\ UNCHANGED <<cont, lock, th, phase, wire, store>>

NextLookup ==
  \/ LookupAdd
  \/ LookupClear
  \/ GetValue
  \/ GetFirstValue
  \/ ValueArray

SpecLookup == Init /\ [][NextLookup]_vars

(***************************************************************************)
(* SpecJson: JSON documents.  c1 is a container a sender built; wire is    *)
(* the document in transit (v2.0 from to_v2_json, C++-nested from a C++    *)
(* peer, Python-flat from to_json); the receiver asks detect_format,       *)
(* converts a foreign document with convert_format and reads a v2.0        *)
(* document into c2 with from_v2_json.  ret.op names the step that wrote   *)
(* wire or c2; on from_v2_json, ret.flag tells that the document had been  *)
(* converted and ret.poh that it had been Python-flat.                     *)
(***************************************************************************)
\* units for JSON: the scalar pool of the wire codec, and containers nested
\* one and two deep
JsonPool ==
  ScalarPool \cup
  {ContainerValue(<<"A">>, <<LeafX, LeafY>>).val,
   ContainerValue(<<"A">>, <<ContainerValue(<<"A">>, <<LeafX>>).val, LeafY>>).val,
   ULongValue(<<"c">>, IntOf(5)).val}

JsonHeaders == {<<<<>>, <<>>, <<>>, <<>>, <<>>>>, <<<<"s">>, <<"u">>, <<"t">>, <<"v">>, <<"m">>>>}

\* the sender builds c1 by the constructor
JsonCompose ==
  /\ ret.op = "init"
  /\ \E h \in JsonHeaders, units \in ListsUpTo(JsonPool, MaxUnits) :
       cont' = [cont EXCEPT !["c1"] = ValueContainer(h[1], h[2], h[3], h[4], h[5], units)]
  /\ ret' = Returned("compose", <<>>, FALSE)
  /\ made' = NoneMade
  /\ UNCHANGED <<lock, th, phase, wire, store>>

ToV2Json ==
  /\ ret.op = "compose"
  /\ wire' = to_v2_json(cont["c1"])
  /\ ret' = Returned("to_v2_json", <<>>, FALSE)
  /\ UNCHANGED <<cont, lock, th, phase, made, store>>

\* a C++ peer holding what c1 holds writes its document: scalar units with
\* different names
WriteCppDocument ==
  /\ ret.op = "compose"
  /\ \A j \in 1..Len(cont["c1"].units) : ~IsNested(cont["c1"].units[j])
  /\ \A i, j \in 1..Len(cont["c1"].units) :
       cont["c1"].units[i].name = cont["c1"].units[j].name => i = j
  /\ wire' = CppDocument(cont["c1"])
  /\ ret' = Returned("cpp", <<>>, FALSE)
  /\ UNCHANGED <<cont, lock, th, phase, made, store>>

\* a Python peer writes c1.to_json(): scalar units
WritePythonDocument ==
  /\ ret.op = "compose"
  /\ \A j \in 1..Len(cont["c1"].units) : ~IsNested(cont["c1"].units[j])
  /\ wire' = to_json(cont["c1"])
  /\ ret' = Returned("python", <<>>, FALSE)
  /\ UNCHANGED <<cont, lock, th, phase, made, store>>

DetectFormat ==
  /\ ret.op \in {"to_v2_json", "cpp", "python"}
  /\ made = NoneMade
  /\ made' = Made("JsonV2Adapter", "detect_format", IntOf(0), Ok(detect_format(wire)))
  /\ UNCHANGED <<cont, lock, th, phase, wire, ret, store>>

\* convert_format(wire, "v2.0")
ConvertFormat ==
  /\ ret.op \in {"cpp", "python"}
  /\ wire' = convert_format(wire, "c2").val
  /\ ret' = [op |-> "convert_format", text |-> <<>>, flag |-> TRUE, poh |-> ret.op = "python"]
  /\ made' = NoneMade
  /\ UNCHANGED <<cont, lock, th, phase, store>>

FromV2Json ==
  /\ ret.op \in {"to_v2_json", "convert_format"}
  /\ cont' = [cont EXCEPT !["c2"] = from_v2_json(wire, "c2").val]
  /\ ret' = [op |-> "from_v2_json", text |-> <<>>, flag |-> ret.op = "convert_format", poh |-> ret.poh]
  /\ made' = NoneMade
  /\ UNCHANGED <<lock, th, phase, wire, store>>

\* both sides start over
JsonReset ==
  /\ ret.op = "from_v2_json"
  /\ cont' = [k \in ContId |-> FreshContainer]
  /\ wire' = <<>>
  /\ ret' = NoReturn
  /\ UNCHANGED <<lock, th, phase, made, store>>

NextJson ==
  \/ JsonCompose
  \/ ToV2Json
  \/ WriteCppDocument
  \/ WritePythonDocument
  \/ DetectFormat
  \/ ConvertFormat
  \/ FromV2Json
  \/ JsonReset

SpecJson == Init /\ [][NextJson]_vars

(***************************************************************************)
(* SpecMsgPack: objects packed by MessagePackSerializer.pack and read back *)
(* by unpack, alone and nested in lists and dicts                          *)
(***************************************************************************)

\* 2^p as a magnitude
MagBit(p) == [j \in 1..(p \div 8 + 1) |-> IF j = p \div 8 + 1 THEN 2 ^ (p % 8) ELSE 0]

\* 2^p - 1, 2^p and 2^p + 1 as magnitudes, p >= 1
Edge(p) ==
  { MagNorm([j \in 1..(p \div 8 + 1) |->
               IF j = p \div 8 + 1 THEN 2 ^ (p % 8) - 1 ELSE 255]),
    MagBit(p),
    [MagBit(p) EXCEPT ![1] = @ + 1] }

\* the bit positions where _pack_int changes the encoding
EdgeBits == {5, 7, 8, 15, 16, 31, 32, 63, 64}

\* the ints packed: 0, 1, -1 and both sides of every edge, of either sign;
\* the ones above 2^64 - 1 or below -2^63 are outside what pack takes
MsgInts ==
  {MkInt(neg, mag) : neg \in BOOLEAN,
                     mag \in {<<>>, <<1>>} \cup UNION {Edge(p) : p \in EdgeBits}}

\* the lengths where _pack_str and _pack_bin change the header
MsgLengths == {0, 1, 31, 32, 255, 256}

MsgStrings ==
  {[j \in 1..n |-> "a"] : n \in MsgLengths} \cup {<<"a", " ", "~">>, <<"[", "1", "]">>}

\* byte strings whose bytes are type codes themselves
MsgBytes ==
  {[j \in 1..n |-> NIL] : n \in MsgLengths} \cup {<<0, 255, 128>>, <<ARRAY16, 0>>}

\* the keys of the dicts: distinct strings
MsgKey(j) == PyStr(<<"k">> \o IntToStr(IntOf(j)))

\* lists and dicts on both sides of the 15-item header edge
MsgLong ==
  UNION {{PyList([j \in 1..n |-> PyInteger(IntOf(j * 16 - 48))]),
          PyDict([j \in 1..n |-> [key |-> MsgKey(j), value |-> PyBoolean(j % 2 = 0)]])}
         : n \in {0, 15, 16}}

MsgPool ==
  {PyNone, PyBoolean(TRUE), PyBoolean(FALSE)}
    \cup {PyInteger(n) : n \in MsgInts}
    \cup {PyStr(s) : s \in MsgStrings}
    \cup {PyBytes(b) : b \in MsgBytes}
    \cup MsgLong

\* what goes next to an object in a list or dict built around it
MsgSiblings == {PyInteger(IntOf(200)), PyStr(<<"b">>)}

\* the bytes that follow the packed object in a longer buffer
MsgTrailing == {0, NIL, 255}

\* how deep lists and dicts are nested in an object
RECURSIVE NestDepth(_)
NestDepth(obj) ==
  IF obj.m = "list"
  THEN 1 + With({NestDepth(obj.l[j]) : j \in 1..Len(obj.l)} \cup {0}, LAMBDA ds :
             CHOOSE d \in ds : \A e \in ds : e <= d)
  ELSE IF obj.m = "map"
  THEN 1 + With({NestDepth(obj.members[j].value) : j \in 1..Len(obj.members)} \cup {0},
                LAMBDA ds : CHOOSE d \in ds : \A e \in ds : e <= d)
  ELSE 0

InitMsgPack ==
  /\ cont = [k \in ContId |-> FreshContainer]
  /\ InitRest

\* data = MessagePackSerializer.pack(x)
MsgPack ==
  \E x \in MsgPool :
    /\ made.via = "none"
    /\ made' = Made("MessagePackSerializer", "pack", x, pack(x))
    /\ wire' = IF pack(x).ok THEN pack(x).val ELSE <<>>
    /\ ret' = Returned("pack", wire', FALSE)
    /\ UNCHANGED <<cont, lock, th, phase, store>>

\* data = MessagePackSerializer.pack([x]) or pack([y, x]) around the object
\* packed last
MsgPackList ==
  \E l \in {<<made.value>>} \cup {<<y, made.value>> : y \in MsgSiblings} :
    /\ made.via = "pack"
    /\ made.res.ok
    /\ NestDepth(made.value) < MaxDepth
    /\ made' = Made("MessagePackSerializer", "pack", PyList(l), pack(PyList(l)))
    /\ wire' = pack(PyList(l)).val
    /\ ret' = Returned("pack", wire', FALSE)
    /\ UNCHANGED <<cont, lock, th, phase, store>>

\* data = MessagePackSerializer.pack({"k1": x}) or pack({"k1": x, "k2": y})
MsgPackDict ==
  \E members \in {<<[key |-> MsgKey(1), value |-> made.value]>>}
       \cup {<<[key |-> MsgKey(1), value |-> made.value], [key |-> MsgKey(2), value |-> y]>>
             : y \in MsgSiblings} :
    /\ made.via = "pack"
    /\ made.res.ok
    /\ NestDepth(made.value) < MaxDepth
    /\ made' = Made("MessagePackSerializer", "pack", PyDict(members), pack(PyDict(members)))
    /\ wire' = pack(PyDict(members)).val
    /\ ret' = Returned("pack", wire', FALSE)
    /\ UNCHANGED <<cont, lock, th, phase, store>>

\* the packed bytes are the head of a longer buffer
MsgAppend ==
  \E b \in MsgTrailing :
    /\ made.via = "pack"
    /\ made.res.ok
    /\ wire = ret.text
    /\ wire' = Append(wire, b)
    /\ UNCHANGED <<cont, lock, th, phase, ret, made, store>>

\* MessagePackSerializer.unpack(data): result, _ = _unpack_one(data, 0)
MsgUnpack ==
  /\ made.via = "pack"
  /\ made.res.ok
  /\ made' = Made("MessagePackSerializer", "unpack", made.value, unpack_one(wire, 0))
  /\ UNCHANGED <<cont, lock, th, phase, wire, ret, store>>

\* the objects and the buffer are dropped
MsgForget ==
  /\ made.via # "none"
  /\ made' = NoneMade
  /\ wire' = <<>>
  /\ ret' = NoReturn
  /\ UNCHANGED <<cont, lock, th, phase, store>>

NextMsgPack ==
  \/ MsgPack
  \/ MsgPackList
  \/ MsgPackDict
  \/ MsgAppend
  \/ MsgUnpack
  \/ MsgForget

SpecMsgPack == InitMsgPack /\ [][NextMsgPack]_vars

(***************************************************************************)
(* SpecNested: a ContainerValue or ArrayValue is built from children,      *)
(* possibly nested ones, and serialize() is called on it                   *)
(***************************************************************************)

\* the leaves put under a nested value
NestedLeaves == {LeafX, LeafY, StringValue(<<"s">>, <<"x">>).val}

\* the child lists of a new nested value: none, one or two leaves
NestedChildren == ListsUpTo(NestedLeaves, MaxUnits)

\* the direct children of a nested value
ChildrenOf(v) == IF v.type = CONTAINER_VALUE THEN v.units ELSE v.values

\* how many nested values lie on the longest path down from v
RECURSIVE ValueDepth(_)
ValueDepth(v) ==
  IF ~IsNested(v) THEN 0
  ELSE 1 + With({ValueDepth(ChildrenOf(v)[j]) : j \in 1..Len(ChildrenOf(v))} \cup {0},
                LAMBDA ds : CHOOSE d \in ds : \A e \in ds : e <= d)

\* v = ContainerValue("A", children)
NewContainerValue ==
  \E children \in NestedChildren :
    /\ made.via = "none"
    /\ made' = Made("ContainerValue", "new", IntOf(0), ContainerValue(<<"A">>, children))
    /\ UNCHANGED <<cont, lock, th, phase, wire, ret, store>>

\* v = ArrayValue("A", children)
NewArrayValue ==
  \E children \in NestedChildren :
    /\ made.via = "none"
    /\ made' = Made("ArrayValue", "new", IntOf(0), ArrayValue(<<"A">>, children))
    /\ UNCHANGED <<cont, lock, th, phase, wire, ret, store>>

\* v = ContainerValue("C", [v]) or ContainerValue("C", [v, y])
WrapInContainerValue ==
  /\ made.via = "new"
  /\ ValueDepth(made.res.val) < MaxDepth
  /\ \E children \in {<<made.res.val>>, <<made.res.val, LeafY>>} :
       made' = Made("ContainerValue", "new", IntOf(0), ContainerValue(<<"C">>, children))
  /\ UNCHANGED <<cont, lock, th, phase, wire, ret, store>>

\* v = ArrayValue("R", [v]) or ArrayValue("R", [x, v])
WrapInArrayValue ==
  /\ made.via = "new"
  /\ ValueDepth(made.res.val) < MaxDepth
  /\ \E children \in {<<made.res.val>>, <<LeafX, made.res.val>>} :
       made' = Made("ArrayValue", "new", IntOf(0), ArrayValue(<<"R">>, children))
  /\ UNCHANGED <<cont, lock, th, phase, wire, ret, store>>

\* text = v.serialize()
SerializeNested ==
  /\ made.via = "new"
  /\ made' = [made EXCEPT !.via = "serialize"]
  /\ wire' = serialize_value(made.res.val)
  /\ ret' = Returned("serialize", wire', TRUE)
  /\ UNCHANGED <<cont, lock, th, phase, store>>

\* the value and the text are dropped
DropNested ==
  /\ made.via # "none"
  /\ made' = NoneMade
  /\ wire' = <<>>
  /\ ret' = NoReturn
  /\ UNCHANGED <<cont, lock, th, phase, store>>

NextNested ==
  \/ NewContainerValue
  \/ NewArrayValue
  \/ WrapInContainerValue
  \/ WrapInArrayValue
  \/ SerializeNested
  \/ DropNested

SpecNested == Init /\ [][NextNested]_vars

(***************************************************************************)
(* SpecReceive: container c1 is set up by its mutators, wire text of a     *)
(* peer arrives and is handed to c1.deserialize, and c1 is mutated and     *)
(* serialized again afterwards                                             *)
(***************************************************************************)

\* the legacy string keys of the six header fields, by numeric id
LegacyKeys ==
  << <<"t", "a", "r", "g", "e", "t", "_", "i", "d">>,
     <<"t", "a", "r", "g", "e", "t", "_", "s", "u", "b", "_", "i", "d">>,
     <<"s", "o", "u", "r", "c", "e", "_", "i", "d">>,
     <<"s", "o", "u", "r", "c", "e", "_", "s", "u", "b", "_", "i", "d">>,
     <<"m", "e", "s", "s", "a", "g", "e", "_", "t", "y", "p", "e">>,
     <<"v", "e", "r", "s", "i", "o", "n">> >>

\* what the peer puts under the numeric id and under the string key of
\* each field
UnderId == << <<"T">>, <<"U">>, <<"S">>, <<"V">>, <<"M">>, <<"2">> >>

UnderKey == << <<"t">>, <<"u">>, <<"s">>, <<"v">>, <<"m">>, <<"3">> >>

\* how a peer writes a header field: under its numeric id, under its
\* string key, under both in either order, or not at all
FieldForms == {"id", "key", "id_key", "key_id", "none"}

KeyItem(id) == <<"[">> \o LegacyKeys[id] \o <<",">> \o UnderKey[id] \o <<"]", ";">>

PeerField(form, id) ==
  CASE form = "id" -> HeaderItem(id, UnderId[id])
    [] form = "key" -> KeyItem(id)
    [] form = "id_key" -> HeaderItem(id, UnderId[id]) \o KeyItem(id)
    [] form = "key_id" -> KeyItem(id) \o HeaderItem(id, UnderId[id])
    [] form = "none" -> <<>>

\* a header block whose four id fields are written in one form and whose
\* message type and version in another
PeerHeader(ids, rest) ==
  HeaderOpen \o PeerField(ids, 1) \o PeerField(ids, 2) \o PeerField(ids, 3)
    \o PeerField(ids, 4) \o PeerField(rest, 5) \o PeerField(rest, 6) \o <<"}", "}">>

\* the data tuples of the peer: none, or the values p = 7 and q = true
PeerTuples ==
  { <<>>,
    Fragment(<<"p">>, INT_VALUE, <<"7">>) \o Fragment(<<"q">>, BOOL_VALUE, <<"t", "r", "u", "e">>) }

\* the forms of the four id fields and of message type and version in the
\* headers of the peer: the same form throughout, and three mixed ones
PeerForms ==
  {<<f, f>> : f \in FieldForms} \cup {<<"id", "key">>, <<"key", "none">>, <<"none", "id_key">>}

PeerTexts == {PeerHeader(f[1], f[2]) \o DataText(t) : f \in PeerForms, t \in PeerTuples}

\* texts without a header block
BrokenTexts == {DataText(t) : t \in PeerTuples} \cup {<<"x">>}

\* one text of the peer is on its way to c1
InitReceive ==
  /\ cont = [k \in ContId |-> FreshContainer]
  /\ lock = [k \in ContId |-> FreeLock]
  /\ th = [t \in Threads |-> IdleThread]
  /\ phase = "setup"
  /\ wire \in PeerTexts \cup BrokenTexts
  /\ ret = NoReturn
  /\ made = NoneMade
  /\ store = ValueStore

\* c1.deserialize(wire, parse_only_header): ret.flag is what it returned
Deserialize ==
  /\ wire # <<>>
  /\ \E poh \in BOOLEAN :
       \E r \in {deserialize(cont["c1"], "c1", wire, poh)} :
         /\ cont' = [cont EXCEPT !["c1"] = r.c]
         /\ ret' = [op |-> "deserialize", text |-> wire, flag |-> r.ret, poh |-> poh]
  /\ wire' = <<>>
  /\ UNCHANGED <<lock, th, phase, made, store>>

NextReceive ==
  \/ SetTarget
  \/ SwapHeader
  \/ Add
  \/ Serialize
  \/ Deserialize

SpecReceive == InitReceive /\ [][NextReceive]_vars

(***************************************************************************)
(* SpecNull: a caller adds NullValue units and other units to c1, c1 is    *)
(* serialized, and the text is given to the constructor of c2              *)
(***************************************************************************)

\* the values the caller adds: two NullValue units and an IntValue
NullPool == {NullValue(<<"n">>).val, NullValue(<<"z">>).val, UnitB}

\* c1.add(v)
AddNullable ==
  /\ Len(cont["c1"].units) < MaxUnits
  /\ \E v \in NullPool, u \in BOOLEAN : Mutate(add(cont["c1"], "c1", v, u), u)

NextNull ==
  \/ AddNullable
  \/ Send
  \/ Restore

SpecNull == Init /\ [][NextNull]_vars

(***************************************************************************)
(* SpecConvert: a caller builds a value and calls its narrowing accessors  *)
(***************************************************************************)

\* the least, the greatest and a middle value of every integer class
ConvertInts ==
  { ShortValue(<<"i">>, MkInt(TRUE, <<0, 128>>)), ShortValue(<<"i">>, MkInt(FALSE, <<255, 127>>)),
    UShortValue(<<"i">>, IntOf(0)), UShortValue(<<"i">>, MkInt(FALSE, <<255, 255>>)),
    IntValue(<<"i">>, INT32_MIN), IntValue(<<"i">>, INT32_MAX), IntValue(<<"i">>, IntOf(5)),
    UIntValue(<<"i">>, IntOf(0)), UIntValue(<<"i">>, UINT32_MAX),
    LongValue(<<"i">>, INT32_MIN), LongValue(<<"i">>, INT32_MAX),
    ULongValue(<<"i">>, IntOf(0)), ULongValue(<<"i">>, UINT32_MAX),
    LLongValue(<<"i">>, MkInt(TRUE, <<0, 0, 0, 0, 0, 0, 0, 128>>)),
    LLongValue(<<"i">>, MkInt(FALSE, <<255, 255, 255, 255, 255, 255, 255, 127>>)),
    ULLongValue(<<"i">>, IntOf(0)),
    ULLongValue(<<"i">>, MkInt(FALSE, <<255, 255, 255, 255, 255, 255, 255, 255>>)) }

\* strings that are and are not int and float literals
ConvertStrings ==
  { <<>>, <<"a", "b", "c">>, <<"1", "2">>, <<" ", "-", "7", " ">>, <<"1", "_", "0">>,
    <<"1", ".", "5">>, <<"1", "e", "9", "9", "9">>, <<"n", "a", "n">>, <<"1", "e">> }

ConvertPool ==
  {NullValue(<<"n">>), BoolValue(<<"b">>, TRUE), BoolValue(<<"b">>, FALSE),
   BytesValue(<<"y">>, <<>>), BytesValue(<<"y">>, <<0, 255>>)}
    \cup ConvertInts
    \cup {StringValue(<<"s">>, s) : s \in ConvertStrings}

\* v = SomeValue(name, ...)
NewValue ==
  /\ \E v \in ConvertPool : made' = Made("Value", "init", IntOf(0), v)
  /\ ret' = NoReturn
  /\ UNCHANGED <<cont, lock, th, phase, wire, store>>

\* v.to_boolean(), v.to_short(), ..., v.to_double(): ret.flag tells whether
\* the call returned; the accessors assign nothing
CallAccessor ==
  /\ made.res.ok
  /\ \E fn \in Accessors : ret' = Returned(fn, <<>>, Convert(made.res.val, fn).ok)
  /\ UNCHANGED <<cont, lock, th, phase, wire, made, store>>

NextConvert ==
  \/ NewValue
  \/ CallAccessor

SpecConvert == Init /\ [][NextConvert]_vars

(***************************************************************************)
(* SpecParent: containers c1 and c2 are built by the constructor with a    *)
(* list of units, by add and set_units, by copy and from serialized text   *)
(***************************************************************************)

\* c1 = ValueContainer(units=units), the values fresh from their constructors
Construct ==
  /\ \E units \in ListsUpTo(SmallPool, MaxUnits) :
       cont' = [cont EXCEPT !["c1"] = ValueContainer(<<>>, <<>>, <<>>, <<>>, <<>>, units)]
  /\ ret' = Returned("init", <<>>, FALSE)
  /\ UNCHANGED <<lock, th, phase, wire, made, store>>

\* c2 = c1.copy(containing_values)
Copy ==
  /\ \E containing_values \in BOOLEAN :
       /\ cont' = [cont EXCEPT !["c2"] = copy(cont["c1"], containing_values)]
       /\ ret' = Returned("copy", <<>>, containing_values)
  /\ UNCHANGED <<lock, th, phase, wire, made, store>>

\* c2 = ValueContainer(data_string=c1.serialize(), parse_only_header=False)
Reload ==
  /\ cont' = [cont EXCEPT
                !["c1"] = SerializeState(@),
                !["c2"] = deserialize(FreshContainer, "c2", SerializeResult(cont["c1"]), FALSE).c]
  /\ ret' = [op |-> "deserialize", text |-> SerializeResult(cont["c1"]),
             flag |-> deserialize(FreshContainer, "c2", SerializeResult(cont["c1"]), FALSE).ret,
             poh |-> FALSE]
  /\ UNCHANGED <<lock, th, phase, wire, made, store>>

NextParent ==
  \/ Construct
  \/ Add
  \/ SetUnits
  \/ Copy
  \/ Reload

SpecParent == Init /\ [][NextParent]_vars

(***************************************************************************)
(* SpecAlias: a caller adds ContainerValues and ArrayValues to c1, keeps   *)
(* the references, and changes their children between calls of            *)
(* c1.serialize().  The unit in the list of c1 is the object the caller    *)
(* holds, so a change through the reference is a change of the unit.       *)
(***************************************************************************)

\* c1.add(ContainerValue("A", [x])) and c1.add(ArrayValue("R", [x]))
AddNested ==
  /\ Len(cont["c1"].units) < MaxUnits
  /\ \E v \in {ContainerValue(<<"A">>, <<LeafX>>).val, ArrayValue(<<"R">>, <<LeafX>>).val} :
       Mutate(add(cont["c1"], "c1", v, FALSE), FALSE)

\* unit j of c1 has become v through the caller's reference; the container
\* is not touched
ChildChanged(j, v) ==
  /\ cont' = [cont EXCEPT !["c1"].units[j] = v]
  /\ ret' = Returned("child", <<>>, FALSE)
  /\ UNCHANGED <<lock, th, phase, wire, made, store>>

UnitsOfType(value_type) ==
  {j \in 1..Len(cont["c1"].units) : cont["c1"].units[j].type = value_type}

ChildAdd ==
  \E j \in UnitsOfType(CONTAINER_VALUE), item \in {LeafX, LeafY} :
    /\ Len(cont["c1"].units[j].units) < MaxUnits
    /\ ChildChanged(j, ContainerValue_add(cont["c1"].units[j], item))

ChildRemove ==
  \E j \in UnitsOfType(CONTAINER_VALUE), name \in {<<"x">>, <<"y">>} :
    ChildChanged(j, ContainerValue_remove(cont["c1"].units[j], name))

ChildRemoveAll ==
  \E j \in UnitsOfType(CONTAINER_VALUE) :
    ChildChanged(j, ContainerValue_remove_all(cont["c1"].units[j]))

ElementAppend ==
  \E j \in UnitsOfType(ARRAY_VALUE), value \in {LeafX, LeafY} :
    /\ Len(cont["c1"].units[j].values) < MaxUnits
    /\ ChildChanged(j, ArrayValue_append(cont["c1"].units[j], value))

ElementClear ==
  \E j \in UnitsOfType(ARRAY_VALUE) :
    ChildChanged(j, ArrayValue_clear(cont["c1"].units[j]))

\* array[index] = value; an IndexError leaves the array as it was
ElementSet ==
  \E j \in UnitsOfType(ARRAY_VALUE), index \in 0..MaxUnits, value \in {LeafX, LeafY} :
    ChildChanged(j, IF ArrayValue_setitem(cont["c1"].units[j], index, value).ok
                    THEN ArrayValue_setitem(cont["c1"].units[j], index, value).val
                    ELSE cont["c1"].units[j])

NextAlias ==
  \/ AddNested
  \/ Serialize
  \/ ChildAdd
  \/ ChildRemove
  \/ ChildRemoveAll
  \/ ElementAppend
  \/ ElementClear
  \/ ElementSet

SpecAlias == Init /\ [][NextAlias]_vars

(***************************************************************************)
(* SpecParse, SpecParseFair: the while loop of _deserialize_values, one    *)
(* pass per step.  wire is the data part, ret.text the list of tuples that *)
(* re.finditer found in it, made.value the 1-based position of the tuple   *)
(* under the cursor (index_ref[0] + 1), made.res what                      *)
(* _parse_value_recursive returned last, and the units of c1 are the       *)
(* values kept so far.                                                     *)
(***************************************************************************)
\* the names of the tuples by position: every tuple of a text has its own,
\* and a text has at most as many tuples as there are names
ParseNames == << <<"p">>, <<"q">>, <<"r">>, <<"s">> >>

\* type code and third field of the tuples: an int, a false bool (which the
\* loop drops), and CONTAINER tuples that declare no, one, two and three
\* children
TupleKinds ==
  { [type |-> INT_VALUE, value |-> <<"1">>],
    [type |-> BOOL_VALUE, value |-> <<"f", "a", "l", "s", "e">>],
    [type |-> CONTAINER_VALUE, value |-> <<>>],
    [type |-> CONTAINER_VALUE, value |-> <<"1">>],
    [type |-> CONTAINER_VALUE, value |-> <<"2">>],
    [type |-> CONTAINER_VALUE, value |-> <<"3">>] }

\* the data part with one tuple per kind of the list, named by position
RECURSIVE TupleText(_, _)
TupleText(kinds, j) ==
  IF j > Len(kinds) THEN <<>>
  ELSE Fragment(ParseNames[j], kinds[j].type, kinds[j].value) \o TupleText(kinds, j + 1)

TupleTexts == {TupleText(kinds, 1) : kinds \in ListsUpTo(TupleKinds, Len(ParseNames))}

InitParse ==
  /\ cont = [k \in ContId |-> FreshContainer]
  /\ lock = [k \in ContId |-> FreeLock]
  /\ th = [t \in Threads |-> IdleThread]
  /\ phase = "setup"
  /\ wire \in TupleTexts
  /\ ret = Returned("finditer", Matches(wire), FALSE)
  /\ made = Made("index_ref", "init", 1, None)
  /\ store = ValueStore

\* the call of _parse_value_recursive for the tuple at position index
ParsedAt(matches, index) ==
  parse_value_recursive(matches, index, matches[index].name,
                        get_type_from_string(matches[index].type), matches[index].value)

\* one pass of the while loop: parse the tuple under the cursor with its
\* children, keep the value if it is true in a test, step the cursor
Iterate ==
  /\ made.via # "done"
  /\ made.value <= Len(ret.text)
  /\ \E parsed \in {ParsedAt(ret.text, made.value)} :
       /\ cont' = [cont EXCEPT !["c1"].units =
                     IF parsed.res.ok /\ Truthy(parsed.res.val)
                     THEN Append(@, set_parent(parsed.res.val, "c1"))
                     ELSE @]
       /\ made' = Made("index_ref", "loop", parsed.index + 1, parsed.res)
  /\ UNCHANGED <<lock, th, phase, wire, ret, store>>

\* the loop condition fails and _deserialize_values returns
LoopExit ==
  /\ made.via # "done"
  /\ made.value > Len(ret.text)
  /\ made' = [made EXCEPT !.via = "done"]
  /\ UNCHANGED <<cont, lock, th, phase, wire, ret, store>>

NextParse ==
  \/ Iterate
  \/ LoopExit

SpecParse == InitParse /\ [][NextParse]_vars

\* the interpreter runs the loop on
SpecParseFair == SpecParse /\ WF_vars(NextParse)

(***************************************************************************)
(* SpecRemove: a caller adds units to c1, several of them with the same    *)
(* name or the same content, sets the target, and removes units by name    *)
(* and by reference.  ret names the call and the name removed; made.value  *)
(* is the position of the object removed, 0 for an object that is not a    *)
(* unit of c1, and made.res the object.                                    *)
(***************************************************************************)

\* c1.remove(name)
RemoveByName ==
  /\ \E name \in LookupNames :
       /\ cont' = [cont EXCEPT !["c1"] = remove_name(@, name, FALSE)]
       /\ ret' = Returned("remove_name", name, FALSE)
  /\ made' = NoneMade
  /\ UNCHANGED <<lock, th, phase, wire, store>>

\* c1.remove(v) for a unit v of c1
RemoveUnit ==
  /\ \E position \in 1..Len(cont["c1"].units) :
       /\ cont' = [cont EXCEPT !["c1"] = remove_value(@, position, FALSE)]
       /\ made' = Made("Value", "remove", position, Ok(cont["c1"].units[position]))
  /\ ret' = Returned("remove_value", <<>>, FALSE)
  /\ UNCHANGED <<lock, th, phase, wire, store>>

\* c1.remove(v) for a value v that was never added, whatever its content
RemoveStranger ==
  /\ \E v \in LookupPool : made' = Made("Value", "remove", 0, Ok(v))
  /\ cont' = [cont EXCEPT !["c1"] = remove_value(@, 0, FALSE)]
  /\ ret' = Returned("remove_value", <<>>, FALSE)
  /\ UNCHANGED <<lock, th, phase, wire, store>>

\* c1.set_target(id, sub_id)
RetargetBeforeRemove ==
  /\ \E id \in IdVals : cont' = [cont EXCEPT !["c1"] = set_target(@, id[1], id[2])]
  /\ ret' = Returned("set_target", <<>>, FALSE)
  /\ made' = NoneMade
  /\ UNCHANGED <<lock, th, phase, wire, store>>

NextRemove ==
  \/ LookupAdd
  \/ RetargetBeforeRemove
  \/ RemoveByName
  \/ RemoveUnit
  \/ RemoveStranger

SpecRemove == Init /\ [][NextRemove]_vars

(***************************************************************************)
(* Properties of Spec                                                      *)
(***************************************************************************)

\* the text serialize() of c1 returned last is the text a fresh
\* serialization of c1 as it is now gives
ReturnsFreshText ==
  ret.op = "serialize" => ret.text = SerializeText(cont["c1"])

\* a call of serialize() that returns the cached string follows a call of
\* serialize(), or a mutator that ended with _update_data_string
CacheOnlyWhenClean ==
  [][(ret'.op = "serialize" /\ ret'.flag)
       => (ret.op = "serialize" \/ (ret.op = "mutate" /\ ret.flag))]_vars

\* C4: in a single-threaded run of set_source, set_target, set_message_type,
\* swap_header, add, set_units, remove, clear_value and serialize on one
\* container, every serialize() returns the fresh serialization of the
\* current header fields and units, and it returns the cached string only
\* when no mutator changed the container since the serialization before
C4_SerializeIsFresh == []ReturnsFreshText /\ CacheOnlyWhenClean

\* serialize() returned the cached string of a container that has units and
\* a header set by the mutators
C4_Witness ==
  /\ ret.op = "serialize"
  /\ ret.flag
  /\ cont["c1"].units # <<>>
  /\ cont["c1"].message_type = <<"m">>
  /\ cont["c1"].target_id = <<"s">>

(***************************************************************************)
(* Properties of SpecCodec                                                 *)
(***************************************************************************)

IsScalar(v) == v.type \in {BOOL_VALUE, STRING_VALUE, BYTES_VALUE} \/ IsIntegerType(v.type)

\* c2 was just built, header only or in full, from the text c1 serializes to
Restored ==
  /\ ret.op = "deserialize"
  /\ ret.text = SerializeText(cont["c1"])

\* text occurs somewhere in s
Contains(s, text) == Find(s, text, 1) # 0

\* C1: for a container whose units are scalar values (bool, every integer
\* width, string, bytes), a full deserialize of its serialize() gives the
\* same ordered units by name, type code and decoded value, BoolValue(false),
\* empty strings, empty byte payloads and empty names included
C1_ScalarUnitsRoundTrip ==
  (RestoredInFull /\ \A j \in 1..Len(cont["c1"].units) : ~IsNested(cont["c1"].units[j]))
    => ViewOfUnits(cont["c2"]) = ViewOfUnits(cont["c1"])

\* C2: for a container with ContainerValue or ArrayValue units nested to any
\* depth, serialize() followed by a full deserialize rebuilds the same tree,
\* every nested value with its children in order and the unit after it as
\* the next top-level unit
C2_NestedUnitsRoundTrip ==
  (RestoredInFull /\ \E j \in 1..Len(cont["c1"].units) : IsNested(cont["c1"].units[j]))
    => ViewOfUnits(cont["c2"]) = ViewOfUnits(cont["c1"])

\* C3: a container built from C.serialize(), header only or in full, has
\* the six header fields of C, whatever the header field values
C3_HeaderRoundTrip ==
  Restored => HeaderOf(cont["c2"]) = HeaderOf(cont["c1"])

\* C9: a StringValue whose text contains "];" comes back from serialize()
\* and a full deserialize with the same text, and the unit serialized after
\* it is still a unit of its own
C9_DelimiterInStringRoundTrip ==
  (/\ RestoredInFull
   /\ Len(cont["c1"].units) = 2
   /\ cont["c1"].units[1].type = STRING_VALUE
   /\ Contains(cont["c1"].units[1].value.s, <<"]", ";">>)
   /\ cont["c1"].units[2] = UnitB)
    => (/\ Len(cont["c2"].units) = 2
        /\ ViewOf(cont["c2"].units[1]) = ViewOf(cont["c1"].units[1])
        /\ ViewOf(cont["c2"].units[2]) = ViewOf(UnitB))

(***************************************************************************)
(* Properties of SpecMalformed                                             *)
(***************************************************************************)

\* the number of places where pat occurs in s
Count(s, pat) == Cardinality({j \in 1..Len(s) : MatchAt(s, pat, j)})

IsPrefix(t, s) == Len(t) <= Len(s) /\ SubSeq(s, 1, Len(t)) = t

\* the text has no header block
NoHeaderBlock(t) == ~Contains(t, HeaderOpen)

\* the text is a well-formed message cut inside its data block, after the
\* start of a tuple and before the end of that tuple
CutMidTuple(t) ==
  /\ \E good \in GoodTexts : IsPrefix(t, good) /\ t # good
  /\ Contains(t, DataOpen)
  /\ Count(t, <<"[">>) > Count(t, <<"]", ";">>)

Malformed(t) ==
  \/ NoHeaderBlock(t)
  \/ CutMidTuple(t)
  \/ t \in OverDeclaredTexts
  \/ t \in BadValueTexts

\* C8: deserialize() on malformed or truncated wire text (no header block,
\* a data block cut in the middle of a tuple, a CONTAINER tuple declaring
\* more children than tuples remain, a tuple whose value cannot be parsed
\* for its type) reports failure: it does not return True
C8_MalformedTextFails ==
  (ret.op = "deserialize" /\ Malformed(ret.text)) => ~ret.flag

(***************************************************************************)
(* Properties of SpecLong                                                  *)
(***************************************************************************)

\* lo <= v <= hi, by sign and magnitude
Between(lo, v, hi) == IntLE(lo, v) /\ IntLE(v, hi)

\* the construction succeeded and the object holds exactly the value asked
\* for, packed in four bytes
Holds(res, value, signed) ==
  /\ res.ok
  /\ res.val.value = NativeInt(value)
  /\ StructUnpack(res.val.data, 4, signed) = Ok(value)

InBody(t) == th[t].stack # <<>> /\ th[t].stack[1].pc # "enter"

\* the threads were started and every call has returned
AllReturned == phase = "run" /\ \A t \in Threads : th[t].stack = <<>>

\* serialize() would return the text of the current header and units
CacheIsCurrent(k) == SerializeResult(cont[k]) = SerializeText(cont[k])

\* C5: with thread safety enabled before the threads start, the bodies of
\* concurrent add, remove, clear_value, header setter and serialize calls on
\* one container are mutually exclusive, and once all calls have returned
\* the dirty flag and the cached string agree with the units: serialize()
\* then emits every unit in the container
C5_LockedBodiesExclude ==
  /\ \A t \in Threads : \A u \in Threads \ {t} :
       InBody(t) /\ InBody(u) => th[t].k # th[u].k
  /\ AllReturned => \A k \in ContId : CacheIsCurrent(k)

\* both threads worked on c1, which holds units and a clean cached string
C5_Witness ==
  /\ AllReturned
  /\ \A t \in Threads : th[t].calls = MaxCalls
  /\ Len(cont["c1"].units) >= 2
  /\ CacheHit(cont["c1"])
  /\ \A k \in ContId : cont[k].thread_safe_enabled

\* the number of units a thread's value accounts for
Held(t) ==
  Cardinality({j \in 1..Len(cont["c1"].units) : cont["c1"].units[j].name = ValueOf(t).name})

\* C6: with default settings, concurrent add calls from several threads on
\* one container, interleaved with serialize(), lose no value: once all
\* threads have finished the container holds every added value and
\* serialize() emits all of them
C6_DefaultAddsLoseNothing ==
  AllReturned =>
    /\ \A t \in Threads : Held(t) = th[t].added
    /\ CacheIsCurrent("c1")

\* the number of with blocks on the lock the thread is inside
Holds_(t) ==
  Cardinality({j \in 1..Len(th[t].stack) :
                 th[t].stack[j].pc # "enter" /\ th[t].stack[j].lk = "RLock"})

\* a lock is owned exactly by the thread inside a with block on its
\* container, once per block: it is free again after every return and raise
LockFollowsBlocks ==
  \A k \in ContId :
    /\ lock[k].owner = "none" => lock[k].depth = 0
    /\ \A t \in Threads :
         IF lock[k].owner = t
         THEN th[t].k = k /\ lock[k].depth = Holds_(t) /\ Holds_(t) > 0
         ELSE th[t].k = k => Holds_(t) = 0

\* a thread waits at a with statement only for a thread that is inside an
\* operation on the same container
WaitsOnlyForSameContainer ==
  \A t \in Threads :
    (th[t].stack # <<>> /\ Top(t).pc = "enter" /\ ~CanAcquire(lock[th[t].k], t))
      => \E u \in Threads \ {t} : InBody(u) /\ th[u].k = th[t].k

\* C7: with thread safety enabled every public operation eventually
\* returns under any fair scheduling: the nested acquisitions (get_value
\* calling value_array, add / set_units / remove with update_immediately
\* calling serialize) never block the caller on its own lock, the lock is
\* released on every exit path including exceptions, and operations on two
\* different containers never wait for each other
C7_EveryCallReturns ==
  /\ \A t \in Threads : (th[t].stack # <<>>) ~> (th[t].stack = <<>>)
  /\ []LockFollowsBlocks
  /\ []WaitsOnlyForSameContainer

\* t1 has come back from get_value by IndexError and the lock of c1 is free
\* again, while t2 holds the lock of c2 twice, inside the serialize() that
\* its mutator called
C7_Witness ==
  /\ th["t1"].stack = <<>>
  /\ th["t1"].raised
  /\ lock["c1"] = FreeLock
  /\ lock["c2"] = [owner |-> "t2", depth |-> 2]
  /\ At("t2", "serialize", "build")

(***************************************************************************)
(* Properties of SpecLong: the payload                                     *)
(***************************************************************************)
\* the four bytes of a 32-bit value, least significant first, written out
\* by place value: byte j holds digit j of the value modulo 2^32 in base 256
LittleEndian4(data, value) ==
  /\ Len(data) = 4
  /\ \A j \in 1..4 : data[j] \in 0..255
  /\ IF value.neg
     THEN MagNorm(BytesAddOne(BytesInvert(data))) = value.mag /\ data[4] >= 128
     ELSE MagNorm(data) = value.mag

\* two values agree in type, name, native value and payload
SameValue(a, b) ==
  /\ a.ok /\ b.ok
  /\ a.val.type = b.val.type /\ a.val.name = b.val.name
  /\ a.val.value = b.val.value /\ a.val.data = b.val.data

\* C11: every LongValue and ULongValue that was built has a payload of
\* exactly 4 bytes in little-endian order, and from_data(name, v.data)
\* returns a value equal to v
C11_PayloadRoundTrip ==
  /\ [](made.res.ok => LittleEndian4(made.res.val.data, made.value))
  /\ [][made'.via = "reload" => SameValue(made'.res, made.res)]_vars

\* ULongValue(4294967295 - 255) was handed back through from_data, and
\* LongValue(-2^31) was too
C11_Witness ==
  /\ made.via = "reload" /\ made.res.ok
  /\ \/ made.cls = "LongValue" /\ made.value = INT32_MIN
     \/ made.cls = "ULongValue" /\ made.value.mag = <<0, 0, 0, 128>>

(***************************************************************************)
(* Properties of SpecTypes                                                 *)
(***************************************************************************)
\* the decimal numerals of 0..15
Codes == {IntToStr(IntOf(n)) : n \in 0..15}

\* C12: the registry is a bijection on the 16 types:
\* get_type_from_string(get_string_from_type(t)) = t for every type t,
\* get_string_from_type(get_type_from_string(c)) = c for every code "0".."15",
\* every other text maps to NULL_VALUE, and neither function fails
C12_RegistryBijection ==
  made.cls = "ValueTypes" =>
    /\ made.res.ok
    /\ made.via = "get_type_from_string" =>
         /\ made.res.val \in 0..15
         /\ wire \in Codes => IntToStr(IntOf(made.res.val)) = wire
         /\ wire \notin Codes => made.res.val = NULL_VALUE
    /\ made.via = "get_string_from_type" =>
         made.res.val = IntToStr(made.value)
    /\ made.via = "string_of_type" =>
         (wire \in Codes => made.res.val = wire)
    /\ made.via = "type_of_string" =>
         IntOf(made.res.val) = made.value

\* the text "015", which is no code, was looked up and the type found for
\* it was turned back into a code
C12_Witness ==
  made.via = "string_of_type" /\ wire = <<"0", "1", "5">> /\ made.res.val = <<"0">>

(***************************************************************************)
(* Properties of SpecStore                                                 *)
(***************************************************************************)
\* the keys of a dict kept as a sequence of items
KeysOf(values) == {values[j].key : j \in 1..Len(values)}

\* the store read back has the size of the store written and, under every
\* key of it, a value of the same type with the same data bytes
SameStore(written, read) ==
  /\ Len(read.values) = Len(written.values)
  /\ \A j \in 1..Len(written.values) :
       With(written.values[j], LAMBDA item :
         /\ KeyAt(read.values, item.key) # 0
         /\ read.values[KeyAt(read.values, item.key)].value.type = item.value.type
         /\ read.values[KeyAt(read.values, item.key)].value.data = item.value.data)

\* C13: for a store S of scalar values (bool, every integer width, string,
\* bytes), deserialize_binary(S.serialize_binary()) has the size of S and,
\* for every key of S, a value of the same type with identical data bytes,
\* BoolValue(false), empty strings and empty byte payloads included
C13_BinaryRoundTrip ==
  (ret.op = "deserialize_binary" /\ ret.flag) =>
    (made.res.ok /\ SameStore(store, made.res.val))

\* C14: deserialize_binary applied to the bytes of a store with their last
\* k bytes removed, 0 < k <= len(b), raises and returns no store, and so
\* does a buffer whose first byte is not BINARY_VERSION; no read goes past
\* the end of the buffer
C14_DamagedBufferRaises ==
  (ret.op = "deserialize_binary" /\ ~ret.flag) => made.res = Raised("RuntimeError")

\* a store of two entries was cut exactly between its entries and refused
C14_Witness ==
  /\ ret.op = "deserialize_binary" /\ ~ret.flag
  /\ Len(store.values) = 2
  /\ wire = <<BINARY_VERSION>> \o PackLen(2) \o SerializeEntries(<<store.values[1]>>)
  /\ ~made.res.ok

\* what get(key) returns
Lookup(s, key) == ValueStore_get(s, key).ret

\* the other keys answer as before
OthersKeep(key) == \A other \in StoreKeys \ {key} : Lookup(store', other) = Lookup(store, other)

\* C15: after any sequence of add, remove and clear the keys are unique,
\* get(k) returns the value most recently added under k and None if k was
\* removed or never added, size() is the number of distinct live keys, and
\* remove(k) returns True exactly when k was present and otherwise leaves
\* the store unchanged
C15_StoreIsAMap ==
  /\ [](/\ \A i, j \in 1..Len(store.values) :
              store.values[i].key = store.values[j].key => i = j
        /\ ValueStore_size(store) = Cardinality(KeysOf(store.values))
        /\ \A key \in StoreKeys : key \notin KeysOf(store.values) => Lookup(store, key) = None)
  /\ [][/\ ret'.op = "add" =>
             Lookup(store', ret'.text) = made'.res /\ OthersKeep(ret'.text)
        /\ ret'.op = "remove" =>
             /\ ret'.flag = (ret'.text \in KeysOf(store.values))
             /\ Lookup(store', ret'.text) = None /\ OthersKeep(ret'.text)
             /\ ~ret'.flag => store' = store
        /\ ret'.op = "clear" => \A key \in StoreKeys : Lookup(store', key) = None
        /\ ret'.op = "get" =>
             made'.res = Lookup(store, ret'.text) /\ OthersKeep(<<>>)
        /\ ret'.op = "size" =>
             made'.value = IntOf(Cardinality(KeysOf(store.values)))]_vars

\* a key was added a second time, with a string, while another key was live
C15_Witness ==
  /\ ret.op = "add" /\ store.write_count = 3 /\ Len(store.values) = 2
  /\ made.res.val.type = STRING_VALUE

(***************************************************************************)
(* Properties of SpecLookup                                                *)
(***************************************************************************)
\* the unit at position p is the n-th unit of that name in insertion order
IsNthNamed(units, name, p, n) ==
  /\ units[p].name = name
  /\ Cardinality({q \in 1..p : units[q].name = name}) = n

\* the n-th unit named name exists
HasNthNamed(units, name, n) == \E p \in 1..Len(units) : IsNthNamed(units, name, p, n)

\* the n-th unit named name
NthNamed(units, name, n) == units[CHOOSE p \in 1..Len(units) : IsNthNamed(units, name, p, n)]

\* what the claim gives for get_value(name, index): the (index+1)-th unit of
\* the name, None when there is none
Expected(units, name, index) ==
  IF HasNthNamed(units, name, index + 1) THEN Ok(NthNamed(units, name, index + 1)) ELSE None

\* value_array(name) returned all the units of the name in insertion order
AllNamed(units, name, res) ==
  /\ res.ok
  /\ Len(res.val) = Cardinality({q \in 1..Len(units) : units[q].name = name})
  /\ \A n \in 1..Len(res.val) : res.val[n] = NthNamed(units, name, n)

\* C16: get_value(name, index) returns the (index+1)-th unit named name in
\* insertion order (the first when the index is omitted) and None when
\* fewer matches exist; value_array(name) returns all units of that name in
\* insertion order; units of one name are kept as separate units
C16_LookupByNameAndIndex ==
  /\ ret.op = "get_value" =>
       made.res = Expected(cont["c1"].units, ret.text, MagToNat(made.value.mag) * (IF made.value.neg THEN 0 - 1 ELSE 1))
  /\ ret.op = "value_array" => AllNamed(cont["c1"].units, ret.text, made.res)

\* the same for the indexes from 0 on, which is where the claim holds
LookupFromZero ==
  /\ (ret.op = "get_value" /\ ~made.value.neg) =>
       made.res = Expected(cont["c1"].units, ret.text, MagToNat(made.value.mag))
  /\ ret.op = "value_array" => AllNamed(cont["c1"].units, ret.text, made.res)

(***************************************************************************)
(* Properties of SpecJson                                                  *)
(***************************************************************************)
\* C17: for a container whose units are bool, integers of every width
\* (SHORT..ULLONG), string, bytes or nested ContainerValue,
\* from_v2_json(to_v2_json(C)) has the same header fields and the same
\* ordered units by name, type code and value, nested containers included
C17_V2JsonRoundTrip ==
  (ret.op = "from_v2_json" /\ ~ret.flag) =>
    /\ HeaderOf(cont["c2"]) = HeaderOf(cont["c1"])
    /\ ViewOfUnits(cont["c2"]) = ViewOfUnits(cont["c1"])

\* the same for containers whose values are all true in a test (true bools,
\* non-empty strings, bytes and containers) and whose integers of the types
\* ULONG, LLONG and ULLONG are zero: there the round trip does hold
RECURSIVE SurvivesJson(_)
SurvivesJson(v) ==
  /\ Truthy(v)
  /\ v.type \in {ULONG_VALUE, LLONG_VALUE, ULLONG_VALUE} => v.value.n = IntOf(0)
  /\ \A j \in 1..Len(v.units) : SurvivesJson(v.units[j])

V2JsonRoundTripOfTruthy ==
  (ret.op = "from_v2_json" /\ ~ret.flag
     /\ \A j \in 1..Len(cont["c1"].units) : SurvivesJson(cont["c1"].units[j])) =>
    /\ HeaderOf(cont["c2"]) = HeaderOf(cont["c1"])
    /\ ViewOfUnits(cont["c2"]) = ViewOfUnits(cont["c1"])

\* the values of a container as a set: name and decoded value
ValueSet(c) == {[name |-> c.units[j].name, value |-> c.units[j].value] : j \in 1..Len(c.units)}

\* detect_format names the format the document was written in
DetectsFormat ==
  made.via = "detect_format" =>
    made.res.val = (CASE ret.op = "to_v2_json" -> "v2.0"
                      [] ret.op = "cpp" -> "cpp"
                      [] ret.op = "python" -> "python")

\* C18: detect_format returns "v2.0", "cpp" and "python" for a v2.0, a
\* C++-nested and a Python-flat document, and convert_format(doc, "v2.0") of
\* a C++-nested or Python-flat document gives a v2.0 document from which
\* from_v2_json recovers the message_type, source_id, target_id and value
\* set of the original document
C18_ConvertKeepsDocument ==
  /\ DetectsFormat
  /\ (ret.op = "from_v2_json" /\ ret.flag) =>
       /\ cont["c2"].message_type = cont["c1"].message_type
       /\ cont["c2"].source_id = cont["c1"].source_id
       /\ cont["c2"].target_id = cont["c1"].target_id
       /\ ValueSet(cont["c2"]) = ValueSet(cont["c1"])

\* every int in the object is between -2^63 and 2^64 - 1
RECURSIVE IntsInRange(_)
IntsInRange(obj) ==
  CASE obj.m = "int" -> IntLE(MinSigned(8), obj.n) /\ IntLE(obj.n, AllOnes(8))
    [] obj.m = "list" -> \A j \in 1..Len(obj.l) : IntsInRange(obj.l[j])
    [] obj.m = "map" -> \A j \in 1..Len(obj.members) : IntsInRange(obj.members[j].value)
    [] OTHER -> TRUE

\* C19: pack takes every object whose ints are between -2^63 and 2^64 - 1,
\* and unpack of the packed bytes returns an object equal to the one packed
\* (None, bool, int on both sides of every encoding edge, str, bytes, lists
\* and string-keyed dicts nested in each other) and stops exactly behind the
\* bytes pack produced, whatever follows them in the buffer
C19_PackUnpackRoundTrip ==
  /\ made.via = "pack" /\ IntsInRange(made.value) => made.res.ok
  /\ made.via = "unpack" =>
       /\ made.res.ok
       /\ made.res.val.v = made.value
       /\ made.res.val.at = Len(ret.text)
       /\ unpack(wire) = Ok(made.value)

\* [{"k1": -2^63, "k2": "b"}] was packed and read back from a buffer that
\* goes on behind the packed bytes
C19_Witness ==
  /\ made.via = "unpack"
  /\ made.value = PyList(<<PyDict(<<[key |-> MsgKey(1), value |-> PyInteger(MinSigned(8))],
                                    [key |-> MsgKey(2), value |-> PyStr(<<"b">>)]>>)>>)
  /\ Len(wire) = Len(ret.text) + 1
  /\ made.res.ok

\* the sum of a list of numbers
RECURSIVE SeqSum(_)
SeqSum(ns) == IF ns = <<>> THEN 0 ELSE ns[1] + SeqSum(Tail(ns))

\* the number of values below v, at any depth
RECURSIVE Descendants(_)
Descendants(v) ==
  IF ~IsNested(v) THEN 0
  ELSE Len(ChildrenOf(v)) + SeqSum([j \in 1..Len(ChildrenOf(v)) |-> Descendants(ChildrenOf(v)[j])])

\* the header tuple with the number of direct children as its third field
CountedHeader(v) ==
  <<"[">> \o v.name \o <<",">> \o get_string_from_type(v.type) \o <<",">>
    \o IntToStr(IntOf(Len(ChildrenOf(v)))) \o <<"]", ";">>

\* the texts of the values of vs, each headed by its counted header, in
\* order, every value followed at once by its children (pre-order)
RECURSIVE PreOrderText(_)
PreOrderText(vs) ==
  IF vs = <<>> THEN <<>>
  ELSE (IF IsNested(vs[1]) THEN CountedHeader(vs[1]) \o PreOrderText(ChildrenOf(vs[1]))
        ELSE serialize_value(vs[1]))
       \o PreOrderText(Tail(vs))

\* C20: serialize() of a ContainerValue and of an ArrayValue is the header
\* tuple [name,type_code,child_count]; with the number of direct children
\* as third field, followed at once by the serialization of every child in
\* order, depth-first and pre-order, 1 plus the number of descendants
\* tuples in all
C20_HeaderThenChildren ==
  made.via = "serialize" =>
    /\ wire = PreOrderText(<<made.res.val>>)
    /\ Count(wire, <<"]", ";">>) = 1 + Descendants(made.res.val)

\* the text of vs with the header of every nested value as the code writes
\* it: a ContainerValue leaves the third field empty
RECURSIVE PreOrderAsWritten(_)
PreOrderAsWritten(vs) ==
  IF vs = <<>> THEN <<>>
  ELSE (IF vs[1].type = CONTAINER_VALUE
        THEN <<"[">> \o vs[1].name \o <<",">> \o get_string_from_type(vs[1].type)
               \o <<",", "]", ";">> \o PreOrderAsWritten(vs[1].units)
        ELSE IF vs[1].type = ARRAY_VALUE
        THEN CountedHeader(vs[1]) \o PreOrderAsWritten(vs[1].values)
        ELSE serialize_value(vs[1]))
       \o PreOrderAsWritten(Tail(vs))

\* what does hold of serialize(): the children follow the header in order,
\* pre-order, 1 plus the number of descendants tuples in all, and the header
\* of an ArrayValue carries the number of its elements
ChildrenFollowInPreOrder ==
  made.via = "serialize" =>
    /\ wire = PreOrderAsWritten(<<made.res.val>>)
    /\ Count(wire, <<"]", ";">>) = 1 + Descendants(made.res.val)

\* one header item written out: the id as a digit, the field text as it is
IdItem(digit, text) == <<"[", digit, ",">> \o text \o <<"]", ";">>

\* the fragments of the units one after the other, first unit first
RECURSIVE UnitFragments(_, _)
UnitFragments(units, j) ==
  IF j > Len(units) THEN <<>>
  ELSE serialize_value(units[j]) \o UnitFragments(units, j + 1)

\* C21: the text serialize() returns is "@header={{" with the six items
\* [1,target_id]; [2,target_sub_id]; [3,source_id]; [4,source_sub_id];
\* [5,message_type]; [6,version]; in this order, each present even when its
\* field is empty and none under a string key, then "}}@data={{", the
\* fragment of every unit in insertion order, and "}};"
C21_HeaderByIdThenUnits ==
  ret.op = "serialize" =>
    ret.text =
      <<"@", "h", "e", "a", "d", "e", "r", "=", "{", "{">>
        \o IdItem("1", cont["c1"].target_id)
        \o IdItem("2", cont["c1"].target_sub_id)
        \o IdItem("3", cont["c1"].source_id)
        \o IdItem("4", cont["c1"].source_sub_id)
        \o IdItem("5", cont["c1"].message_type)
        \o IdItem("6", cont["c1"].version)
        \o <<"}", "}", "@", "d", "a", "t", "a", "=", "{", "{">>
        \o UnitFragments(cont["c1"].units, 1)
        \o <<"}", "}", ";">>

\* serialize() built the text of a container with two units, a target set
\* and the source fields still empty
C21_Witness ==
  /\ ret.op = "serialize"
  /\ ~ret.flag
  /\ Len(cont["c1"].units) = 2
  /\ cont["c1"].units[1].name # cont["c1"].units[2].name
  /\ cont["c1"].target_id = <<"s">>
  /\ cont["c1"].source_id = <<>>
  /\ cont["c1"].source_sub_id = <<>>

(***************************************************************************)
(* Properties of SpecNull                                                  *)
(***************************************************************************)

\* the fragment NullValue.serialize writes
NullFragment(name) ==
  <<"[">> \o name \o <<",", "0", ",", "n", "u", "l", "l", "]", ";">>

\* a NullValue unit of the sender has type code 0, no data bytes, and the
\* fragment [name,0,null];
NullUnitInSender ==
  \A j \in 1..Len(cont["c1"].units) :
    cont["c1"].units[j].type = NULL_VALUE =>
      /\ NULL_VALUE = 0
      /\ cont["c1"].units[j].data = <<>>
      /\ serialize_value(cont["c1"].units[j]) = NullFragment(cont["c1"].units[j].name)

\* C22: a NullValue added to a container is a present unit with type code
\* 0, zero-length data and the fragment [name,0,null];, and after
\* serialize() and a full deserialize the receiving container holds a unit
\* of type NULL_VALUE with that name at the same position
C22_NullUnitSurvivesRoundTrip ==
  /\ NullUnitInSender
  /\ RestoredInFull =>
       \A j \in 1..Len(cont["c1"].units) :
         cont["c1"].units[j].type = NULL_VALUE =>
           /\ j <= Len(cont["c2"].units)
           /\ cont["c2"].units[j].type = NULL_VALUE
           /\ cont["c2"].units[j].name = cont["c1"].units[j].name

\* c1 holds a NullValue unit and c2 was restored in full from its text
NullUnitSent ==
  /\ RestoredInFull
  /\ \E j \in 1..Len(cont["c1"].units) : cont["c1"].units[j].type = NULL_VALUE

(***************************************************************************)
(* Properties of SpecConvert                                               *)
(***************************************************************************)

DefaultOnBadString ==
  /\ Convert(StringValue(<<"s">>, <<"a", "b", "c">>).val, "to_int") = Ok(PyInteger(IntOf(0)))
  /\ Convert(StringValue(<<"s">>, <<"1", "e">>).val, "to_float") = Ok(PyFloat(<<"0", ".", "0">>))
  /\ Convert(StringValue(<<"s">>, <<" ", "-", "7", " ">>).val, "to_int") = Ok(PyInteger(MkInt(TRUE, <<7>>)))

(***************************************************************************)
(* Properties of SpecParent                                                *)
(***************************************************************************)

\* every unit of container k has k as its parent
PointBack(k) ==
  \A j \in 1..Len(cont[k].units) : cont[k].units[j].parent = k

\* C24: every Value in the unit list of a container has that container as
\* its parent, after construction with units, add, set_units, copy and
\* deserialize in any order
C24_UnitsPointBack == \A k \in ContId : PointBack(k)

\* the units that deserialize rebuilds have the container as their parent
ParentSetByDeserialize == ret.op = "deserialize" => PointBack("c2")

(***************************************************************************)
(* Properties of SpecReceive: the header fields                            *)
(***************************************************************************)

\* the six header fields of a container by numeric id
FieldById(c) ==
  <<c.target_id, c.target_sub_id, c.source_id, c.source_sub_id, c.message_type, c.version>>

\* what a field takes when the header has it under neither form
FieldDefaults == << <<>>, <<>>, <<>>, <<>>, DEFAULT_MESSAGE_TYPE, DEFAULT_VERSION >>

\* what field id is to be after a header that wrote it in the given form
FieldExpected(form, id) ==
  CASE form \in {"id", "id_key", "key_id"} -> UnderId[id]
    [] form = "key" -> UnderKey[id]
    [] form = "none" -> FieldDefaults[id]

\* deserialize has just read the peer header written in the forms f
ReadPeerHeader(f) ==
  /\ ret.op = "deserialize"
  /\ \E t \in PeerTuples : ret.text = PeerHeader(f[1], f[2]) \o DataText(t)

\* C25: deserialize takes a header field from the item under its numeric id
\* or under its legacy string key; with both present the numeric id wins,
\* whichever comes first; a field under neither becomes "" (the four ids),
\* "data_container" (message type) or "1.0.0.0" (version)
C25_HeaderByIdOrKey ==
  \A f \in PeerForms :
    ReadPeerHeader(f) =>
      /\ ret.flag
      /\ \A id \in 1..6 :
           FieldById(cont["c1"])[id] = FieldExpected(IF id <= 4 THEN f[1] ELSE f[2], id)

\* a container that holds a unit has read a header that has the ids under
\* string keys only and neither message type nor version
C25_Witness ==
  /\ ReadPeerHeader(<<"key", "none">>)
  /\ cont["c1"].target_id = <<"t">>
  /\ cont["c1"].version = DEFAULT_VERSION
  /\ \E j \in 1..Len(cont["c1"].units) : cont["c1"].units[j].name = <<"a">>

\* deserialize returned False in this step
FailedDeserialize == ret'.op = "deserialize" /\ ~ret'.flag /\ wire # <<>> /\ wire' = <<>>

\* a deserialize that returns False leaves the header fields and the units
\* as they were
FailedDeserializeKeepsFields ==
  [][FailedDeserialize =>
       /\ HeaderOf(cont'["c1"]) = HeaderOf(cont["c1"])
       /\ cont'["c1"].units = cont["c1"].units]_vars

\* C26: a deserialize that returns False leaves the container as it was:
\* header fields and units are unchanged, and serialize() returns after
\* the call what it would have returned before it
C26_FailedDeserializeKeepsAll ==
  [][FailedDeserialize =>
       /\ HeaderOf(cont'["c1"]) = HeaderOf(cont["c1"])
       /\ cont'["c1"].units = cont["c1"].units
       /\ SerializeResult(cont'["c1"]) = SerializeResult(cont["c1"])]_vars

\* the data tuples of the peer text that has values
PeerData ==
  Fragment(<<"p">>, INT_VALUE, <<"7">>) \o Fragment(<<"q">>, BOOL_VALUE, <<"t", "r", "u", "e">>)

\* c1 read only the header of a text with the peer's values, and still
\* holds that text
HoldsUnparsedData(c) == ~c.parsed_data /\ Contains(c.data_string, PeerData)

\* C27: after deserialize(s, parse_only_header=True) on a text s with data
\* values, serialize() still emits the data values of s, also when
\* set_target or swap_header changed the header in between
C27_HeaderOnlyKeepsData ==
  [][ret'.op = "serialize" /\ HoldsUnparsedData(cont["c1"]) =>
       Contains(ret'.text, PeerData)]_vars

\* without a change in between, serialize() after a header-only deserialize
\* returns the text that was received
HeaderOnlyKeepsDataWhileClean ==
  [][ret'.op = "serialize" /\ HoldsUnparsedData(cont["c1"]) /\ ~cont["c1"].changed_data =>
       ret'.text = cont["c1"].data_string]_vars

(***************************************************************************)
(* Properties of SpecAlias                                                 *)
(***************************************************************************)

\* C28: when the children of a ContainerValue or ArrayValue that is a unit
\* of the container were changed after a serialize(), the next serialize()
\* of the container returns a text whose data block is that of the units
\* as they are now, not the cached one
C28_SerializeSeesChildren ==
  ret.op = "serialize" =>
    Contains(ret.text, DataText(serialize_all(cont["c1"].units)))

\* serialize() built the text anew: the dirty flag was set by a mutator of
\* the container itself
FreshTextSeesChildren ==
  ret.op = "serialize" /\ ~ret.flag =>
    Contains(ret.text, DataText(serialize_all(cont["c1"].units)))

(***************************************************************************)
(* Properties of SpecParse and SpecParseFair                               *)
(***************************************************************************)

\* the names of the values of vs and of all values below them, every value
\* followed at once by its children
RECURSIVE PreOrderNames(_)
PreOrderNames(vs) ==
  IF vs = <<>> THEN <<>>
  ELSE <<vs[1].name>> \o PreOrderNames(ChildrenOf(vs[1])) \o PreOrderNames(Tail(vs))

\* the members of a occur in b in the same order
RECURSIVE IsSubsequence(_, _)
IsSubsequence(a, b) ==
  \/ a = <<>>
  \/ /\ b # <<>>
     /\ IF a[1] = b[1] THEN IsSubsequence(Tail(a), Tail(b)) ELSE IsSubsequence(a, Tail(b))

\* the children the CONTAINER tuples of the list declare, taken together
DeclaredChildren(matches) ==
  SeqSum([j \in 1..Len(matches) |->
            IF get_type_from_string(matches[j].type) = CONTAINER_VALUE
            THEN ChildCount(matches[j].value) ELSE 0])

\* the children the tuple of the given name declares
DeclaredBy(matches, name) ==
  ChildCount(matches[CHOOSE j \in 1..Len(matches) : matches[j].name = name].value)

\* every ContainerValue among vs and below has at most as many children as
\* its tuple declares
RECURSIVE WithinDeclared(_, _)
WithinDeclared(vs, matches) ==
  \A j \in 1..Len(vs) :
    IsNested(vs[j]) =>
      /\ Len(ChildrenOf(vs[j])) <= DeclaredBy(matches, vs[j].name)
      /\ WithinDeclared(ChildrenOf(vs[j]), matches)

\* the cursor is at most one step per declared child past the list, the
\* values rebuilt so far come from different tuples before the cursor, in
\* the order of the tuples, and no container has more children than declared
InBounds(matches, index, names, units) ==
  /\ index >= 1
  /\ index <= Len(matches) + 1 + DeclaredChildren(matches)
  /\ Len(names) <= Len(matches)
  /\ IsSubsequence(names, [j \in 1..Len(matches) |-> matches[j].name])
  /\ \A j \in 1..Len(matches) :
       (\E l \in 1..Len(names) : names[l] = matches[j].name) => j < index
  /\ WithinDeclared(units, matches)

CursorInBounds ==
  With(PreOrderNames(cont["c1"].units), LAMBDA names :
    InBounds(ret.text, made.value, names, cont["c1"].units))

\* a pass of the loop moves the cursor forward
CursorForward == made'.value > made.value \/ (made'.via = "done" /\ made'.value = made.value)

\* C29: _deserialize_values terminates on every flat tuple list; the cursor
\* only moves forward and is never further past the list than one step per
\* declared child; each tuple is used for at most one value; a CONTAINER
\* tuple that declares N children gets at most N; and no more values are
\* rebuilt than there are tuples
C29_ParseTerminatesInBounds ==
  /\ <>(made.via = "done")
  /\ []CursorInBounds
  /\ [][CursorForward]_vars

\* the loop has ended with the cursor two past the list, after a CONTAINER
\* tuple took a child that is itself a container declaring more children
\* than tuples follow
C29_Witness ==
  /\ made.via = "done"
  /\ made.value = Len(ret.text) + 3
  /\ Len(cont["c1"].units) = 1
  /\ ValueDepth(cont["c1"].units[1]) = 2

\* the list holds the tuples of the data part, and the loop steps to the
\* units that _deserialize_values returns as a whole
LoopGivesDeserializeValues ==
  /\ Len(ret.text) <= Len(ParseNames)
  /\ \A j \in 1..Len(ret.text) : ret.text[j].name = ParseNames[j]
  /\ made.via = "done" => cont["c1"].units = deserialize_values(wire, "c1")

(***************************************************************************)
(* Properties of SpecRemove                                                *)
(***************************************************************************)

\* the positions of the units of the given name
Named(units, name) == {j \in 1..Len(units) : units[j].name = name}

\* list after is list before without the member at position p
WithoutPosition(before, after, p) ==
  /\ Len(after) = Len(before) - 1
  /\ \A j \in 1..Len(after) : after[j] = IF j < p THEN before[j] ELSE before[j + 1]

\* what remove(name) is to do to the unit list
NameRemoved(before, after, name) ==
  /\ Named(after, name) = {}
  /\ Len(after) = Len(before) - Cardinality(Named(before, name))
  /\ IsSubsequence(after, before)
  /\ Named(before, name) = {} => after = before

\* what remove(value) is to do to the unit list
ObjectRemoved(before, after, position) ==
  IF position = 0 THEN after = before ELSE WithoutPosition(before, after, position)

\* C30: remove(name) deletes every unit of that name and remove(value) only
\* that object; the other units keep their relative order, the six header
\* fields are unchanged, and removing a name or an object the container does
\* not hold leaves the unit list unchanged
C30_RemoveTakesOnlyTarget ==
  [][ret'.op \in {"remove_name", "remove_value"} =>
       /\ HeaderOf(cont'["c1"]) = HeaderOf(cont["c1"])
       /\ ret'.op = "remove_name" =>
            NameRemoved(cont["c1"].units, cont'["c1"].units, ret'.text)
       /\ ret'.op = "remove_value" =>
            ObjectRemoved(cont["c1"].units, cont'["c1"].units, made'.value)]_vars

\* the first of two units with the same content was removed by reference
\* from a container with a target, and the second is still there
C30_Witness ==
  /\ ret.op = "remove_value"
  /\ made.value = 1
  /\ Len(cont["c1"].units) = 2
  /\ cont["c1"].units[1] = made.res.val
  /\ cont["c1"].target_id # <<>>

====
